---- MODULE Spec2Model ----
(***************************************************************************)
(* A model of oscar.py (World of Code access layer): object keys, commit   *)
(* dates, the Tokyo Cabinet handle pool, lazily memoized object fields and *)
(* the commit header parser.                                               *)
(*                                                                         *)
(* Python 2 byte strings are sequences of byte values 0..255.  None is the *)
(* empty option <<>>, a present value v is the option <<v>>.               *)
(***************************************************************************)
EXTENDS Integers, Sequences, FiniteSets, TLC

\* ------------------------------------------------------------------ bounds
\* longest byte string handed to unber, longest handed to lzf_length
MaxBer == 4
MaxFrame == 7
\* most entries of a generated tree
MaxEntries == 2
\* most tokens of a stored relation value
MaxTokens == 3
\* most paths of the files of a commit's tree
MaxPaths == 2
\* longest key string handed to GitObject.__init__
MaxKeyLen == 41
\* largest hour / minute field of a generated timezone token
MaxHour == 23
MaxMinute == 59
\* largest wall-clock reading (seconds) and largest generated unix timestamp
MaxClock == 3
MaxTs == 4
\* live object instances
MaxInsts == 2
\* header entries of a generated commit
MaxHeader == 2
\* threads sharing an instance
MaxThreads == 2

\* ------------------------------------------------------- program constants
HEX_LEN == 40
BIN_LEN == 20
\* datetime rejects a utcoffset of a whole day or more
MinutesPerDay == 1440

VARIABLES
    made,       \* SpecKey: per slot, the input, outcome and object of GitObject.__init__
    dateIn,     \* SpecDate: the timestamp string handed to parse_commit_date
    dateNow,    \* SpecDate: time.time() at the call
    dateOut,    \* SpecDate: outcome of the call (option of a result record)
    disk,       \* the archive: Tokyo Cabinet files and the blob content file
    pool,       \* _TCH_POOL: path -> handle
    poolLog,    \* per path: tch.Hash() objects created and open() calls made
    asked,      \* the paths handed to _get_tch so far
    insts,      \* the live GitObject instances, each with its memoized fields
    firsts,     \* per instance and field, the value the field held first
    last,       \* the last operation: what was asked and what came back
    commitIn,   \* SpecCommit: the header entries and the message the content was built from
    commitNow,  \* SpecCommit: time.time() during the parse
    commit,     \* SpecCommit: a Commit instance with its content and its attributes
    commitLast, \* SpecCommit: the last attribute access and its outcome
    callIn,     \* a call of a function of the module: its name and its arguments
    callOut,    \* the outcome of that call (option of a result)
    frames,     \* SpecThreads: per thread, its call of a cached_property wrapper
    attrs,      \* SpecThreads: the "_" + name attributes set on the shared instance
    raceLog     \* SpecThreads: per field, the runs of func and whether calls overlapped

vars == <<made, dateIn, dateNow, dateOut, disk, pool, poolLog, asked, insts, firsts, last,
          commitIn, commitNow, commit, commitLast, callIn, callOut, frames, attrs, raceLog>>
callVars == <<callIn, callOut>>
raceVars == <<frames, attrs, raceLog>>
commitVars == <<commitIn, commitNow, commit, commitLast>>
storeVars == <<disk, pool, poolLog, asked, insts, firsts, last>>
keyVars == <<made>>
dateVars == <<dateIn, dateNow, dateOut>>

\* ----------------------------------------------------------------- strings
Printable ==
    <<" ", "!", "DQUOTE", "#", "$", "%", "&", "'", "(", ")", "*", "+", ",", "-", ".", "/",
      "0", "1", "2", "3", "4", "5", "6", "7", "8", "9", ":", ";", "<", "=", ">", "?",
      "@", "A", "B", "C", "D", "E", "F", "G", "H", "I", "J", "K", "L", "M", "N", "O",
      "P", "Q", "R", "S", "T", "U", "V", "W", "X", "Y", "Z", "[", "BACKSLASH", "]", "^", "_",
      "BACKTICK", "a", "b", "c", "d", "e", "f", "g", "h", "i", "j", "k", "l", "m", "n", "o",
      "p", "q", "r", "s", "t", "u", "v", "w", "x", "y", "z", "{", "|", "}", "~">>

\* ord(c) for a printable ASCII character
Ord(c) == 31 + CHOOSE i \in 1..Len(Printable) : Printable[i] = c

\* the byte string of a character sequence
Str(cs) == [i \in 1..Len(cs) |-> Ord(cs[i])]

None == <<>>
Some(v) == <<v>>

\* Body applied to the value of v, with v evaluated once
Bind(v, Body(_)) == CHOOSE y \in { Body(b) : b \in {v} } : TRUE

Min(a, b) == IF a < b THEN a ELSE b
Max(a, b) == IF a < b THEN b ELSE a

\* s[a:b] with Python's rules for negative and out-of-range bounds (0-based)
PySlice(s, a, b) ==
    LET n  == Len(s)
        lo == IF a < 0 THEN Max(n + a, 0) ELSE Min(a, n)
        hi == IF b < 0 THEN Max(n + b, 0) ELSE Min(b, n)
    IN  IF lo < hi THEN SubSeq(s, lo + 1, hi) ELSE <<>>

\* character codes used by the parsers
SP == Ord(" ")
NL == 10
PLUS == Ord("+")
MINUS == Ord("-")
DIGIT0 == Ord("0")
DIGIT9 == Ord("9")
LOWER_A == Ord("a")
LOWER_F == Ord("f")
UPPER_A == Ord("A")
UPPER_F == Ord("F")
\* what str.split() and str.strip() treat as blank: \t \n \v \f \r and space
Whitespace == {9, 10, 11, 12, 13, 32}
IsDigit(b) == b \in DIGIT0..DIGIT9

\* str.split(): split on runs of whitespace, no empty pieces
RECURSIVE SplitWSFrom(_, _, _)
SplitWSFrom(s, i, cur) ==
    IF i > Len(s) THEN (IF cur = <<>> THEN <<>> ELSE <<cur>>)
    ELSE IF s[i] \in Whitespace
         THEN (IF cur = <<>> THEN <<>> ELSE <<cur>>) \o SplitWSFrom(s, i + 1, <<>>)
         ELSE SplitWSFrom(s, i + 1, Append(cur, s[i]))
SplitWS(s) == SplitWSFrom(s, 1, <<>>)

\* the value of a run of decimal digits
RECURSIVE DigitsValue(_)
DigitsValue(ds) ==
    IF ds = <<>> THEN 0
    ELSE 10 * DigitsValue(SubSeq(ds, 1, Len(ds) - 1)) + (ds[Len(ds)] - DIGIT0)

\* int(s): an option, None standing for ValueError
PyInt(s) ==
    LET signed == s # <<>> /\ s[1] \in {PLUS, MINUS}
        ds     == IF signed THEN Tail(s) ELSE s
    IN  IF ds = <<>> \/ \E i \in 1..Len(ds) : ~IsDigit(ds[i]) THEN None
        ELSE Some((IF signed /\ s[1] = MINUS THEN -1 ELSE 1) * DigitsValue(ds))

\* ------------------------------------------------------------ hex encoding
HexDigits == Str(<<"0", "1", "2", "3", "4", "5", "6", "7", "8", "9", "a", "b", "c", "d", "e", "f">>)

\* value of one hex digit, either case; -1 when it is none
HexVal(b) ==
    IF IsDigit(b) THEN b - DIGIT0
    ELSE IF b \in LOWER_A..LOWER_F THEN b - LOWER_A + 10
    ELSE IF b \in UPPER_A..UPPER_F THEN b - UPPER_A + 10
    ELSE -1

\* whether s.decode("hex") succeeds
IsHex(s) == Len(s) % 2 = 0 /\ \A i \in 1..Len(s) : HexVal(s[i]) >= 0

\* s.decode("hex") for a string on which it succeeds
HexDecode(s) == [i \in 1..(Len(s) \div 2) |-> 16 * HexVal(s[2 * i - 1]) + HexVal(s[2 * i])]

\* s.encode("hex"): two lowercase digits per byte
HexEncode(s) ==
    [i \in 1..(2 * Len(s)) |->
        IF i % 2 = 1 THEN HexDigits[(s[(i + 1) \div 2] \div 16) + 1]
        ELSE HexDigits[(s[i \div 2] % 16) + 1]]

\* ------------------------------------------------------------------- codec
\* unber: Perl BER unpacking of consecutive base-128 integers
\* unber with acc = 0 after res.append(acc) left out
RECURSIVE unberFrom_noreset(_, _, _)
unberFrom_noreset(s, i, acc) ==
    IF i > Len(s) THEN <<>>
    ELSE LET b  == s[i]
             a2 == acc * 128 + (b % 128)
         IN  IF b < 128 THEN <<a2>> \o unberFrom_noreset(s, i + 1, a2)
             ELSE unberFrom_noreset(s, i + 1, a2)

RECURSIVE unberFrom(_, _, _)
unberFrom(s, i, acc) ==
    IF i > Len(s) THEN <<>>
    ELSE LET b  == s[i]
             a2 == acc * 128 + (b % 128)
         IN  IF b < 128 THEN <<a2>> \o unberFrom(s, i + 1, 0)
             ELSE unberFrom(s, i + 1, a2)
unber(s) == unberFrom(s, 1, 0)

\* the while loop with mask >>= 1 on every turn
RECURSIVE lzf_mask_walk_noskip(_, _, _, _)
lzf_mask_walk_noskip(lower, csize, start, mask) ==
    IF mask # 0 /\ csize > start /\ (lower \div mask) % 2 = 1
    THEN lzf_mask_walk_noskip(lower, csize, start + 1, mask \div 2)
    ELSE [start |-> start, mask |-> mask]

\* the while loop of lzf_length: walks the mask down the first byte
RECURSIVE lzf_mask_walk(_, _, _, _)
lzf_mask_walk(lower, csize, start, mask) ==
    IF mask # 0 /\ csize > start /\ (lower \div mask) % 2 = 1
    THEN lzf_mask_walk(lower, csize, start + 1,
                       mask \div (IF mask = 128 THEN 4 ELSE 2))
    ELSE [start |-> start, mask |-> mask]

\* the for loop of lzf_length: six payload bits per extra header byte
RECURSIVE lzf_usize(_, _, _, _)
lzf_usize(raw_data, i, start, usize) ==
    IF i >= start THEN usize
    ELSE lzf_usize(raw_data, i + 1, start, usize * 64 + (raw_data[i + 1] % 64))

\* lzf_length: (header_size, uncompressed_length) or ValueError
lzf_length(raw_data) ==
    IF raw_data = <<>> THEN [err |-> "ValueError", start |-> 0, usize |-> 0]
    ELSE
    LET lower == raw_data[1]
        csize == Len(raw_data)
        w     == lzf_mask_walk(lower, csize, 1, 128)
    IN  IF w.mask = 0 \/ csize < w.start
        THEN [err |-> "ValueError", start |-> 0, usize |-> 0]
        ELSE
        LET usize == lzf_usize(raw_data, 1, w.start, lower % w.mask)
        IN  IF usize = 0 THEN [err |-> "ValueError", start |-> 0, usize |-> 0]
            ELSE [err |-> "ok", start |-> w.start, usize |-> usize]

\* lzf.decompress(payload, usize): literal runs and back references of liblzf;
\* None when the output does not fit usize, ValueError on a corrupt stream
RECURSIVE LzfCopy(_, _, _)
LzfCopy(out, ref, n) ==
    IF n = 0 THEN out ELSE LzfCopy(Append(out, out[ref + 1]), ref + 1, n - 1)
RECURSIVE LzfRun(_, _, _, _)
LzfRun(in, ip, out, usize) ==
    IF ip > Len(in) THEN [err |-> "ok", out |-> Some(out)]
    ELSE
    LET ctrl == in[ip]
    IN  IF ctrl < 32
        THEN IF Len(out) + ctrl + 1 > usize THEN [err |-> "ok", out |-> None]
             ELSE IF ip + ctrl + 1 > Len(in) THEN [err |-> "ValueError", out |-> None]
             ELSE LzfRun(in, ip + ctrl + 2, out \o SubSeq(in, ip + 1, ip + ctrl + 1), usize)
        ELSE
        LET long == (ctrl \div 32) = 7
            need == IF long THEN 2 ELSE 1
        IN  IF ip + need > Len(in) THEN [err |-> "ValueError", out |-> None]
            ELSE
            LET len == (ctrl \div 32) + (IF long THEN in[ip + 1] ELSE 0)
                ref == Len(out) - (ctrl % 32) * 256 - 1 - in[ip + need]
            IN  IF Len(out) + len + 2 > usize THEN [err |-> "ok", out |-> None]
                ELSE IF ref < 0 THEN [err |-> "ValueError", out |-> None]
                ELSE LzfRun(in, ip + need + 1, LzfCopy(out, ref, len + 2), usize)
LzfDecompress(in, usize) ==
    IF in = <<>> THEN [err |-> "ValueError", out |-> None]
    ELSE LzfRun(in, 1, <<>>, usize)

\* decomp: raw_data is an option (None is what read_tch gives for a miss);
\* the result is an option as well (lzf.decompress may give None)
decomp(raw_data) ==
    IF raw_data = None \/ raw_data[1] = <<>> THEN [err |-> "ok", out |-> Some(<<>>)]
    ELSE IF raw_data[1][1] = 0 THEN [err |-> "ok", out |-> Some(Tail(raw_data[1]))]
    ELSE LET h == lzf_length(raw_data[1])
         IN  IF h.err # "ok" THEN [err |-> h.err, out |-> None]
             ELSE LzfDecompress(SubSeq(raw_data[1], h.start + 1, Len(raw_data[1])), h.usize)

\* slice20: 20-byte chunks, each hex encoded; () for None
RECURSIVE slice20From(_, _)
slice20From(raw, i) ==
    IF i > Len(raw) THEN <<>>
    ELSE <<HexEncode(SubSeq(raw, i, Min(i + BIN_LEN - 1, Len(raw))))>>
            \o slice20From(raw, i + BIN_LEN)
slice20(raw_data) == IF raw_data = None THEN <<>> ELSE slice20From(raw_data[1], 1)

\* ------------------------------------------------------------- shard store
\* PATHS: per data type a path template and the shard prefix length in bits,
\* as _get_paths derives them from the files on disk
PATHS ==
    [commit_random   |-> [path |-> <<"/fast/All.sha1c/commit_", "{key}", ".tch">>, bits |-> 1],
     tree_random     |-> [path |-> <<"/fast/All.sha1c/tree_", "{key}", ".tch">>, bits |-> 0],
     blob_offset     |-> [path |-> <<"/fast/All.sha1o/sha1.blob_", "{key}", ".tch">>, bits |-> 0],
     commit_children |-> [path |-> <<"/da0_data/basemaps/c2ccFullR.", "{key}", ".tch">>, bits |-> 0],
     blob_data       |-> [path |-> <<"/da4_data/All.blobs/blob_", "{key}", ".bin">>, bits |-> 0]]
TchTypes == {"commit_random", "tree_random", "blob_offset", "commit_children"}

\* str(n) for a shard index
ShardNames == <<"0", "1", "2", "3">>

\* path.format(key=prefix)
FormatKey(path, prefix) ==
    [i \in 1..Len(path) |-> IF path[i] = "{key}" THEN ShardNames[prefix + 1] ELSE path[i]]

\* resolve_path with use_fnv=False: the first key byte masked to the prefix length
resolve_path(dtype, object_key) ==
    LET p      == object_key[1]
        prefix == p % (2 ^ PATHS[dtype].bits)
    IN  FormatKey(PATHS[dtype].path, prefix)

\* the state the lookups thread through: the pool and its log, the instances,
\* and the counts of what the current operation did
World ==
    [pool |-> pool, poolLog |-> poolLog, asked |-> asked, insts |-> insts,
     reads |-> 0, binReads |-> 0, runs |-> 0]

\* the pool part of _get_tch: the pooled handle of a path, created and opened
\* on first use; a failing open() leaves the new handle in the pool
pool_get(w, path0, path) ==
    IF path \in DOMAIN w.pool
    THEN [w |-> [w EXCEPT !.asked = @ \cup {path0}], err |-> "ok", path |-> path]
    ELSE Bind(IF path \in DOMAIN w.poolLog THEN w.poolLog[path]
              ELSE [made |-> 0, opens |-> 0],
         LAMBDA log :
            [w    |-> [w EXCEPT
                         !.asked = @ \cup {path0},
                         !.pool = (path :> [isopen |-> path \in DOMAIN disk.tch]) @@ @,
                         !.poolLog = (path :> [made |-> log.made + 1,
                                               opens |-> log.opens + 1]) @@ @],
             err  |-> IF path \in DOMAIN disk.tch THEN "ok" ELSE "Error",
             path |-> path])

\* _get_tch with the '.tch' suffix not added
get_tch_nosuffix(w, path0) == pool_get(w, path0, path0)

\* _get_tch: '.tch' is appended to a path that lacks it
get_tch(w, path0) ==
    pool_get(w, path0, IF path0[Len(path0)] = ".tch" THEN path0 ELSE Append(path0, ".tch"))

\* read_tch: every exception of the lookup is swallowed into None
read_tch(w, path, key) ==
    Bind(get_tch(w, path), LAMBDA g :
        [w   |-> [g.w EXCEPT !.reads = @ + 1],
         err |-> "ok",
         val |-> IF g.err = "ok" /\ g.w.pool[g.path].isopen
                    /\ key \in DOMAIN disk.tch[g.path]
                 THEN Some(disk.tch[g.path][key]) ELSE None])

\* tch_keys: fwmkeys on the pooled handle; nothing is caught here
tch_keys(w, path, key_prefix) ==
    Bind(get_tch(w, path), LAMBDA g :
        IF g.err = "ok" /\ g.w.pool[g.path].isopen
        THEN [w |-> g.w, err |-> "ok",
              val |-> { k \in DOMAIN disk.tch[g.path] :
                          Len(k) >= Len(key_prefix)
                          /\ SubSeq(k, 1, Len(key_prefix)) = key_prefix }]
        ELSE [w |-> g.w, err |-> "Error", val |-> {}])

\* ------------------------------------------------------------- object keys
GitClasses == {"commit", "blob"}
Slots == {"a", "b"}

\* the builtin hash of a string, as a deterministic polynomial of its bytes
RECURSIVE PyHash(_)
PyHash(s) ==
    IF s = <<>> THEN 0
    ELSE (31 * PyHash(SubSeq(s, 1, Len(s) - 1)) + s[Len(s)]) % 65521

\* _Base.__init__: the identifier as given becomes the key
Base_init(self, key) == [self EXCEPT !.key = key]

\* GitObject.__init__ with self.key = self.sha overwritten by the base class
GitObject_init(cls, sha) ==
    LET blank == [type |-> cls, sha |-> <<>>, bin_sha |-> <<>>, key |-> <<>>]
    IN  IF Len(sha) = HEX_LEN
        THEN IF IsHex(sha)
             THEN [err |-> "ok",
                   obj |-> Base_init([blank EXCEPT !.sha = sha, !.bin_sha = HexDecode(sha),
                                                   !.key = sha], sha)]
             ELSE [err |-> "TypeError", obj |-> blank]
        ELSE IF Len(sha) = BIN_LEN
        THEN [err |-> "ok",
              obj |-> Base_init([blank EXCEPT !.sha = HexEncode(sha), !.bin_sha = sha,
                                              !.key = HexEncode(sha)], sha)]
        ELSE [err |-> "ValueError", obj |-> blank]

\* _Base.__eq__ and _Base.__hash__
Base_eq(self, other) ==
    /\ self.type = other.type
    /\ self.key = other.key
Base_hash(self) == PyHash(self.key)

\* key strings: a short unit repeated up to a length
KeyUnits ==
    { Str(<<"a", "b">>), <<171>>, Str(<<"A", "B">>), Str(<<"g">>) }
Fill(unit, n) == [i \in 1..n |-> unit[((i - 1) % Len(unit)) + 1]]
KeyInputs == { Fill(u, n) : u \in KeyUnits, n \in 0..MaxKeyLen }

InitKey == made = [s \in Slots |-> None]

\* one construction per slot: its input, its outcome and the object
Construct(slot, cls, sha) ==
    /\ made[slot] = None
    /\ made' = [made EXCEPT ![slot] =
                    Some([input |-> sha] @@ GitObject_init(cls, sha))]
    /\ UNCHANGED <<dateVars, storeVars, commitVars, callVars, raceVars>>

NextKey ==
    \E slot \in Slots, cls \in GitClasses, sha \in KeyInputs : Construct(slot, cls, sha)

\* ------------------------------------------------------------ object model
ObjClasses == {"commit", "tree", "blob"}

\* the fields memoized with cached_property, per class
CachedFields ==
    [commit |-> {"data", "child_shas"}, tree |-> {"data"}, blob |-> {"position", "data"}]

\* cached_property with the hasattr test dropped: func runs on every access
cached_property_always(w, i, name, r) ==
    Bind(r, LAMBDA f :
        IF f.err # "ok" THEN f
        ELSE [w   |-> [f.w EXCEPT !.insts[i].cache = (name :> f.val) @@ @, !.runs = @ + 1],
              err |-> "ok", val |-> f.val])

\* cached_property: r is func(self), run only when "_" + name is not set yet
cached_property(w, i, name, r) ==
    IF name \in DOMAIN w.insts[i].cache
    THEN [w |-> w, err |-> "ok", val |-> w.insts[i].cache[name]]
    ELSE Bind(r, LAMBDA f :
            IF f.err # "ok" THEN f
            ELSE [w   |-> [f.w EXCEPT !.insts[i].cache = (name :> f.val) @@ @,
                                      !.runs = @ + 1],
                  err |-> "ok", val |-> f.val])

\* GitObject.read_tch: the shard is resolved from bin_sha
GitObject_read_tch(w, i, dtype) ==
    read_tch(w, resolve_path(dtype, w.insts[i].bin_sha), w.insts[i].bin_sha)

\* GitObject.data (commits and trees)
GitObject_data(w, i) ==
    IF w.insts[i].type \notin {"commit", "tree"}
    THEN [w |-> w, err |-> "NotImplementedError", val |-> None]
    ELSE Bind(GitObject_read_tch(w, i, IF w.insts[i].type = "commit"
                                       THEN "commit_random" ELSE "tree_random"),
         LAMBDA rd : Bind(decomp(rd.val),
         LAMBDA d  : [w |-> rd.w, err |-> d.err, val |-> d.out]))

\* Blob.position
Blob_position(w, i) ==
    Bind(GitObject_read_tch(w, i, "blob_offset"), LAMBDA rd :
        IF rd.val = None THEN [w |-> rd.w, err |-> "TypeError", val |-> <<>>]
        ELSE Bind(unber(rd.val[1]), LAMBDA u :
                IF Len(u) # 2 THEN [w |-> rd.w, err |-> "ObjectNotFound", val |-> <<>>]
                ELSE [w |-> rd.w, err |-> "ok", val |-> u]))

\* the read of Blob.data: length bytes at offset of the content file
Blob_read(w, i, offset, length) ==
    Bind(resolve_path("blob_data", w.insts[i].bin_sha), LAMBDA path :
        IF path \notin DOMAIN disk.bin
        THEN [w |-> w, err |-> "IOError", val |-> None]
        ELSE Bind(decomp(Some(SubSeq(disk.bin[path],
                                     Min(offset, Len(disk.bin[path])) + 1,
                                     Min(offset + length, Len(disk.bin[path]))))),
             LAMBDA d : [w |-> [w EXCEPT !.binReads = @ + 1], err |-> d.err, val |-> d.out]))

\* Blob.data: the position first, then the content
Blob_data(w, i) ==
    Bind(cached_property(w, i, "position", Blob_position(w, i)), LAMBDA pos :
        IF pos.err # "ok" THEN [w |-> pos.w, err |-> pos.err, val |-> None]
        ELSE Blob_read(pos.w, i, pos.val[1], pos.val[2]))

\* Commit.child_shas
Commit_child_shas(w, i) ==
    Bind(GitObject_read_tch(w, i, "commit_children"), LAMBDA rd :
        [w |-> rd.w, err |-> "ok", val |-> slice20(rd.val)])

\* the function a cached_property wraps, by class and field
Func(w, i, name) ==
    IF name = "position" THEN Blob_position(w, i)
    ELSE IF name = "child_shas" THEN Commit_child_shas(w, i)
    ELSE IF w.insts[i].type = "blob" THEN Blob_data(w, i)
    ELSE GitObject_data(w, i)

\* ------------------------------------------------------------- the archive
\* two object keys, one per commit shard
KEY_A == Fill(<<170>>, BIN_LEN)
KEY_B == Fill(<<171>>, BIN_LEN)
ObjKeys == {KEY_A, KEY_B}
OtherKey(k) == IF k = KEY_A THEN KEY_B ELSE KEY_A

\* how a key is stored: not at all, with well-formed values, with odd ones
KeyStates == {"absent", "good", "odd"}

\* the stored value of a key in a store
StoredValue(dtype, k, st) ==
    IF dtype = "commit_random"
    THEN (IF st = "good" THEN <<0>> \o Str(<<"t", "r", "e", "e">>) ELSE <<>>)
    ELSE IF dtype = "tree_random"
    THEN (IF st = "good" THEN <<3, 2>> \o Str(<<"4", "0", " ">>) ELSE <<192, 128>>)
    ELSE IF dtype = "blob_offset"
    THEN (IF st = "good" THEN (IF k = KEY_A THEN <<0, 3>> ELSE <<3, 2>>) ELSE <<5>>)
    ELSE (IF st = "good" THEN OtherKey(k) ELSE <<>>)

TypeOfPath(path) == CHOOSE d \in TchTypes : PATHS[d].path[1] = path[1]

\* the archive in which the files of `missing` do not exist
Archive(missing, st) ==
    [tch |-> [path \in { resolve_path(d, k) : d \in TchTypes, k \in ObjKeys } \ missing |->
                [k \in { k \in ObjKeys : /\ resolve_path(TypeOfPath(path), k) = path
                                         /\ st[k] # "absent" } |->
                    StoredValue(TypeOfPath(path), k, st[k])]],
     bin |-> (resolve_path("blob_data", KEY_A) :> (<<0>> \o Str(<<"h", "i">>) \o <<0>> \o Str(<<"!">>)))]

MissingChoices ==
    { {}, {resolve_path("commit_random", KEY_A)}, {resolve_path("blob_offset", KEY_A)} }

InitStore ==
    /\ \E missing \in MissingChoices, st \in [ObjKeys -> KeyStates] :
            disk = Archive(missing, st)
    /\ pool = <<>>
    /\ poolLog = <<>>
    /\ asked = {}
    /\ insts = <<>>
    /\ firsts = <<>>
    /\ last = [op |-> "none", inst |-> 0, field |-> "", hit |-> FALSE, err |-> "ok",
               val |-> None, reads |-> 0, binReads |-> 0, runs |-> 0]

\* a new instance: Commit(sha), Tree(sha) or Blob(sha)
New(cls, sha) ==
    LET r == GitObject_init(cls, sha)
    IN  /\ Len(insts) < MaxInsts
        /\ r.err = "ok"
        /\ insts' = Append(insts, r.obj @@ [cache |-> <<>>])
        /\ firsts' = Append(firsts, <<>>)
        /\ UNCHANGED <<disk, pool, poolLog, asked, last, keyVars, dateVars, commitVars, callVars, raceVars>>

\* reading a memoized field of an instance
Access(i, name) ==
    \E w \in {World} : \E r \in {cached_property(w, i, name, Func(w, i, name))} :
        /\ pool' = r.w.pool
        /\ poolLog' = r.w.poolLog
        /\ asked' = r.w.asked
        /\ insts' = r.w.insts
        /\ firsts' = [firsts EXCEPT ![i] = @ @@ r.w.insts[i].cache]
        /\ last' = [op |-> "access", inst |-> i, field |-> name,
                    hit |-> name \in DOMAIN insts[i].cache, err |-> r.err,
                    val |-> IF r.err = "ok" THEN Some(r.val) ELSE None,
                    reads |-> r.w.reads, binReads |-> r.w.binReads, runs |-> r.w.runs]
        /\ UNCHANGED <<disk, keyVars, dateVars, commitVars, callVars, raceVars>>

NextObj ==
    \/ \E cls \in ObjClasses, k \in ObjKeys : New(cls, HexEncode(k))
    \/ \E i \in 1..Len(insts) : \E name \in CachedFields[insts[i].type] : Access(i, name)

\* direct use of the store functions, with and without the '.tch' suffix
PoolTypes == {"commit_random", "blob_offset"}
PoolPaths == { resolve_path(d, k) : d \in PoolTypes, k \in ObjKeys }
RawPaths == PoolPaths \cup { SubSeq(path, 1, Len(path) - 1) : path \in PoolPaths }

ReadTch(path, key) ==
    \E w \in {World} : \E r \in {read_tch(w, path, key)} :
        /\ pool' = r.w.pool
        /\ poolLog' = r.w.poolLog
        /\ asked' = r.w.asked
        /\ last' = [last EXCEPT !.op = "read_tch", !.err = r.err, !.val = r.val,
                                !.reads = r.w.reads]
        /\ UNCHANGED <<disk, insts, firsts, keyVars, dateVars, commitVars, callVars, raceVars>>

TchKeys(path) ==
    \E w \in {World} : \E r \in {tch_keys(w, path, <<>>)} :
        /\ pool' = r.w.pool
        /\ poolLog' = r.w.poolLog
        /\ asked' = r.w.asked
        /\ last' = [last EXCEPT !.op = "tch_keys", !.err = r.err, !.val = None,
                                !.reads = 0]
        /\ UNCHANGED <<disk, insts, firsts, keyVars, dateVars, commitVars, callVars, raceVars>>

NextPool ==
    \/ \E path \in RawPaths, key \in ObjKeys : ReadTch(path, key)
    \/ \E path \in RawPaths : TchKeys(path)

\* ------------------------------------------------------------ commit dates
\* CommitTimezone(hours, minutes).utcoffset(), in minutes
CommitTimezone(hours, minutes) == 60 * hours + minutes

\* datetime.fromtimestamp(ts, tz): None for the ValueError of a bad utcoffset
fromtimestamp(ts, tz) ==
    IF tz <= -MinutesPerDay \/ tz >= MinutesPerDay THEN None
    ELSE Some([ts |-> ts, offset |-> tz])

\* parse_commit_date: err is "ok" or the exception that escapes it
parse_commit_date(timestamp, now) ==
    LET parts == SplitWS(timestamp)
    IN  IF Len(parts) # 2 THEN [err |-> "ValueError", dt |-> None]
        ELSE
        LET ts    == parts[1]
            tz    == parts[2]
            sign  == IF tz[1] = MINUS THEN -1 ELSE 1
            its   == PyInt(ts)
            ihrs  == PyInt(PySlice(tz, -4, -2))
            imin  == PyInt(<<tz[Len(tz) - 1]>>)
        IN  IF its = None \/ ihrs = None THEN [err |-> "ok", dt |-> None]
            ELSE IF Len(tz) < 2 THEN [err |-> "IndexError", dt |-> None]
            ELSE IF imin = None THEN [err |-> "ok", dt |-> None]
            ELSE
            LET dt == fromtimestamp(its[1], CommitTimezone(sign * ihrs[1], sign * imin[1]))
            IN  IF dt = None THEN [err |-> "ok", dt |-> None]
                ELSE IF its[1] > now THEN [err |-> "ok", dt |-> None]
                ELSE [err |-> "ok", dt |-> dt]

\* decimal digits of a natural number, at least width of them
RECURSIVE Decimal(_, _)
Decimal(n, width) ==
    IF n < 10 /\ width <= 1 THEN <<DIGIT0 + n>>
    ELSE Append(Decimal(n \div 10, width - 1), DIGIT0 + (n % 10))

\* well-formed timestamp strings "ts +hhmm" / "ts -hhmm"
TzToken(sgn, hh, mm) == <<IF sgn = "-" THEN MINUS ELSE PLUS>> \o Decimal(hh, 2) \o Decimal(mm, 2)
DateString(ts, sgn, hh, mm) == Decimal(ts, 1) \o <<SP>> \o TzToken(sgn, hh, mm)

InitDate ==
    /\ dateIn \in [ts : 0..MaxTs, sgn : {"+", "-"}, hh : 0..MaxHour, mm : 0..MaxMinute]
    /\ dateNow \in 0..MaxClock
    /\ dateOut = None

ParseDate ==
    /\ dateOut = None
    /\ dateOut' = Some(parse_commit_date(
                        DateString(dateIn.ts, dateIn.sgn, dateIn.hh, dateIn.mm), dateNow))
    /\ UNCHANGED <<dateIn, dateNow, keyVars, storeVars, commitVars, callVars, raceVars>>

NextDate == ParseDate

\* ------------------------------------------------------------ commit parser
\* index of the first occurrence of sep in s, 0 when there is none
Find(s, sep) ==
    LET hits == { i \in 1..(Len(s) - Len(sep) + 1) : SubSeq(s, i, i + Len(sep) - 1) = sep }
    IN  IF hits = {} THEN 0 ELSE CHOOSE i \in hits : \A j \in hits : i <= j

\* index of the last occurrence of the byte c in s, 0 when there is none
RFind(s, c) ==
    LET hits == { i \in 1..Len(s) : s[i] = c }
    IN  IF hits = {} THEN 0 ELSE CHOOSE i \in hits : \A j \in hits : i >= j

\* s.split(sep, 1)
Split1(s, sep) ==
    Bind(Find(s, sep), LAMBDA i :
        IF i = 0 THEN <<s>>
        ELSE <<SubSeq(s, 1, i - 1), SubSeq(s, i + Len(sep), Len(s))>>)

\* s.split(sep)
RECURSIVE Split(_, _)
Split(s, sep) ==
    Bind(Find(s, sep), LAMBDA i :
        IF i = 0 THEN <<s>>
        ELSE <<SubSeq(s, 1, i - 1)>> \o Split(SubSeq(s, i + Len(sep), Len(s)), sep))

\* s.rsplit(" ", n)
RECURSIVE RSplit(_, _)
RSplit(s, n) ==
    Bind(RFind(s, SP), LAMBDA i :
        IF n = 0 \/ i = 0 THEN <<s>>
        ELSE Append(RSplit(SubSeq(s, 1, i - 1), n - 1), SubSeq(s, i + 1, Len(s))))

\* " ".join(parts)
RECURSIVE Join(_)
Join(parts) ==
    IF parts = <<>> THEN <<>>
    ELSE IF Len(parts) = 1 THEN parts[1]
    ELSE parts[1] \o <<SP>> \o Join(Tail(parts))

\* s.strip()
Strip(s) ==
    LET keep == { i \in 1..Len(s) : s[i] \notin Whitespace }
    IN  IF keep = {} THEN <<>>
        ELSE SubSeq(s, CHOOSE i \in keep : \A j \in keep : i <= j,
                       CHOOSE i \in keep : \A j \in keep : i >= j)

\* the attributes Commit.__getattr__ serves
CommitAttrs ==
    {"tree", "parent_shas", "message", "full_message", "author", "committer",
     "authored_at", "committed_at", "signature"}

KEY_TREE == Str(<<"t", "r", "e", "e">>)
KEY_PARENT == Str(<<"p", "a", "r", "e", "n", "t">>)
KEY_AUTHOR == Str(<<"a", "u", "t", "h", "o", "r">>)
KEY_COMMITTER == Str(<<"c", "o", "m", "m", "i", "t", "t", "e", "r">>)
KEY_GPGSIG == Str(<<"g", "p", "g", "s", "i", "g">>)
HeaderKeys == {KEY_TREE, KEY_PARENT, KEY_AUTHOR, KEY_COMMITTER, KEY_GPGSIG}
END_PGP_SIGNATURE ==
    Str(<<"-", "-", "-", "-", "-", "E", "N", "D", " ", "P", "G", "P", " ",
          "S", "I", "G", "N", "A", "T", "U", "R", "E", "-", "-", "-", "-", "-">>)
UNEXPECTED_HEADER == "Unexpected header in commit "

\* the branch of the if/elif chain for one of the five header keys; st holds
\* the instance attributes and the locals of the loop
HeaderField(st, key, value, now) ==
    IF key = KEY_TREE
    THEN Bind(GitObject_init("tree", value), LAMBDA t :
            IF t.err # "ok" THEN [st EXCEPT !.err = t.err]
            ELSE [st EXCEPT !.dict["tree"] = Some(t.obj)])
    ELSE IF key = KEY_PARENT
    THEN [st EXCEPT !.parent_shas = Append(@, value)]
    ELSE IF key \in {KEY_AUTHOR, KEY_COMMITTER}
    THEN Bind(RSplit(value, 2), LAMBDA chunks :
         Bind(parse_commit_date(Join(Tail(chunks)), now), LAMBDA d :
            IF key = KEY_AUTHOR
            THEN [st EXCEPT !.dict["author"] = Some(chunks[1]),
                            !.dict["authored_at"] = IF d.err = "ok" THEN d.dt ELSE @,
                            !.err = d.err]
            ELSE [st EXCEPT !.dict["committer"] = Some(chunks[1]),
                            !.dict["committed_at"] = IF d.err = "ok" THEN d.dt ELSE @,
                            !.err = d.err]))
    ELSE [st EXCEPT !.signature = Some(value), !.reading_signature = TRUE]

\* the if/elif chain with a final else that rejects every other key
HeaderLine_strict(st, sha, key, value, now) ==
    IF key \in HeaderKeys THEN HeaderField(st, key, value, now)
    ELSE [st EXCEPT !.err = "ValueError", !.msg = <<UNEXPECTED_HEADER, sha>>]

\* the if/elif chain: it has no else, a line with any other key does nothing
HeaderLine(st, sha, key, value, now) ==
    IF key \in HeaderKeys THEN HeaderField(st, key, value, now)
    ELSE st

\* a variant of the loop body that ends a signature block only at a line that
\* is the END marker as it stands, with no blank before or after it
ParseLine_unstripped(st, sha, line, now) ==
    IF st.reading_signature
    THEN Bind(st.signature[1] \o line, LAMBDA sig :
            IF line = END_PGP_SIGNATURE
            THEN [st EXCEPT !.signature = Some(sig), !.dict["signature"] = Some(sig),
                            !.reading_signature = FALSE]
            ELSE [st EXCEPT !.signature = Some(sig)])
    ELSE IF line # <<>> /\ line[1] = SP THEN st
    ELSE Bind(Strip(line), LAMBDA stripped :
            IF stripped = <<>> THEN st
            ELSE Bind(Split1(stripped, <<SP>>), LAMBDA kv :
                    IF Len(kv) # 2
                    THEN [st EXCEPT !.err = "ValueError", !.msg = <<UNEXPECTED_HEADER, sha>>]
                    ELSE HeaderLine(st, sha, kv[1], kv[2], now)))

\* one turn of the loop over the header lines
ParseLine(st, sha, line, now) ==
    IF st.reading_signature
    THEN Bind(st.signature[1] \o line, LAMBDA sig :
            IF Strip(line) = END_PGP_SIGNATURE
            THEN [st EXCEPT !.signature = Some(sig), !.dict["signature"] = Some(sig),
                            !.reading_signature = FALSE]
            ELSE [st EXCEPT !.signature = Some(sig)])
    ELSE IF line # <<>> /\ line[1] = SP THEN st
    ELSE Bind(Strip(line), LAMBDA stripped :
            IF stripped = <<>> THEN st
            ELSE Bind(Split1(stripped, <<SP>>), LAMBDA kv :
                    IF Len(kv) # 2
                    THEN [st EXCEPT !.err = "ValueError", !.msg = <<UNEXPECTED_HEADER, sha>>]
                    ELSE HeaderLine(st, sha, kv[1], kv[2], now)))

\* the loop, left at the first exception
RECURSIVE ParseLines(_, _, _, _, _)
ParseLines(st, sha, lines, i, now) ==
    IF i > Len(lines) \/ st.err # "ok" THEN st
    ELSE Bind(ParseLine(st, sha, lines[i], now), LAMBDA st2 :
            ParseLines(st2, sha, lines, i + 1, now))

\* the body of Commit.__getattr__ for one of CommitAttrs: every attribute is
\* set to None, then the content is parsed into them
Commit_parse(self, now) ==
    Bind([a \in CommitAttrs |-> None], LAMBDA blank :
    Bind(Split1(self.data, <<NL, NL>>), LAMBDA parts :
        IF Len(parts) # 2
        THEN [dict |-> blank, err |-> "ValueError", msg |-> <<>>]
        ELSE Bind(ParseLines([dict |-> [blank EXCEPT
                                          !["full_message"] = Some(parts[2]),
                                          !["message"] = Some(Split1(parts[2], <<NL>>)[1])],
                              parent_shas |-> <<>>, signature |-> None,
                              reading_signature |-> FALSE, err |-> "ok", msg |-> <<>>],
                             self.sha, Split(parts[1], <<NL>>), 1, now),
             LAMBDA st :
                IF st.err # "ok" THEN [dict |-> st.dict, err |-> st.err, msg |-> st.msg]
                ELSE [dict |-> [st.dict EXCEPT !["parent_shas"] = Some(st.parent_shas)],
                      err |-> "ok", msg |-> <<>>])))

\* header entries a commit is built from, by kind
SHA_C == Fill(Str(<<"c", "0">>), HEX_LEN)
SHA_T == Fill(Str(<<"7", "e">>), HEX_LEN)
SHA_P == Fill(Str(<<"9", "a">>), HEX_LEN)
SHA_Q == Fill(Str(<<"9", "b">>), HEX_LEN)
Entries ==
    [tree             |-> KEY_TREE \o <<SP>> \o SHA_T,
     tree_bad         |-> KEY_TREE \o <<SP>> \o Str(<<"x", "y", "z">>),
     parent           |-> KEY_PARENT \o <<SP>> \o SHA_P,
     parent_bare      |-> KEY_PARENT,
     author           |-> KEY_AUTHOR \o Str(<<" ", "J", " ", "D", " ", "<", "j", ">", " ",
                                              "2", " ", "+", "0", "1", "0", "0">>),
     author_short     |-> KEY_AUTHOR \o Str(<<" ", "J", " ", "2">>),
     committer_future |-> KEY_COMMITTER \o Str(<<" ", "B", " ", "<", "b", ">", " ",
                                                 "9", " ", "+", "0", "0", "0", "0">>),
     committer_badts  |-> KEY_COMMITTER \o Str(<<" ", "B", " ", "<", "b", ">", " ",
                                                 "x", " ", "+", "0", "0", "0", "0">>),
     unknown_valued   |-> Str(<<"e", "n", "c", "o", "d", "i", "n", "g", " ", "U", "T", "F">>),
     unknown_bare     |-> Str(<<"e", "n", "c", "o", "d", "i", "n", "g">>),
     continuation     |-> Str(<<" ", "t", "a", "g", " ", "v", "1">>),
     gpgsig           |-> KEY_GPGSIG \o Str(<<" ", "-", "B", "E", "G", "I", "N">>) \o <<NL>>
                            \o Str(<<" ", "x", "x">>) \o <<NL, SP>> \o END_PGP_SIGNATURE,
     gpgsig_open      |-> KEY_GPGSIG \o Str(<<" ", "-", "B", "E", "G", "I", "N">>),
     gpgsig_fields    |-> KEY_GPGSIG \o Str(<<" ", "-", "B", "E", "G", "I", "N">>) \o <<NL>>
                            \o KEY_PARENT \o <<SP>> \o SHA_P \o <<NL>>
                            \o KEY_TREE \o <<SP>> \o SHA_T \o <<NL, SP>> \o END_PGP_SIGNATURE,
     parent_other     |-> KEY_PARENT \o <<SP>> \o SHA_Q]

EntryKinds == DOMAIN Entries
MESSAGE == Str(<<"m", "s", "g">>) \o <<NL>> \o Str(<<"m", "o", "r", "e">>)

\* the content of a commit: the entries on lines of their own, then an empty
\* line and the message; body None leaves the empty line and the message out
RECURSIVE HeaderOf(_)
HeaderOf(es) ==
    IF es = <<>> THEN <<>>
    ELSE IF Len(es) = 1 THEN Entries[es[1]]
    ELSE Entries[es[1]] \o <<NL>> \o HeaderOf(Tail(es))
DataOf(es, body) ==
    IF body = None THEN HeaderOf(es) ELSE HeaderOf(es) \o <<NL, NL>> \o body[1]

Headers == UNION { [1..n -> EntryKinds] : n \in 0..MaxHeader }

\* a commit with its content loaded (as the instances of GitObject.all()) and
\* no attribute read yet
InitCommit ==
    /\ \E es \in Headers, body \in {None, Some(MESSAGE)} :
          /\ body = None => Len(es) <= 1
          /\ commitIn = [entries |-> es, body |-> body]
          /\ commit = [sha |-> SHA_C, data |-> DataOf(es, body), dict |-> <<>>]
    /\ commitNow = MaxClock
    /\ commitLast = [attr |-> "", parsed |-> FALSE, err |-> "ok", msg |-> <<>>, val |-> None]

\* c.attr: __getattr__ runs only when the instance has no such attribute
GetAttr(attr) ==
    IF attr \in DOMAIN commit.dict
    THEN /\ commitLast' = [attr |-> attr, parsed |-> FALSE, err |-> "ok", msg |-> <<>>,
                           val |-> commit.dict[attr]]
         /\ UNCHANGED <<commit, commitIn, commitNow, keyVars, dateVars, storeVars, callVars, raceVars>>
    ELSE \E r \in {Commit_parse(commit, commitNow)} :
         /\ commit' = [commit EXCEPT !.dict = r.dict]
         /\ commitLast' = [attr |-> attr, parsed |-> TRUE, err |-> r.err, msg |-> r.msg,
                           val |-> IF r.err = "ok" THEN r.dict[attr] ELSE None]
         /\ UNCHANGED <<commitIn, commitNow, keyVars, dateVars, storeVars, callVars, raceVars>>

NextCommit == \E attr \in CommitAttrs : GetAttr(attr)

\* -------------------------------------------------------------- codec calls
\* all sequences over a set of bytes, up to a length
SeqsUpTo(bytes, n) == UNION { [1..k -> bytes] : k \in 0..n }

\* byte strings for unber: terminators 00 14 4D 7F, continuation bytes 80 83
\* 87, and the strings of the doctests
BerBytes == {0, 20, 77, 127, 128, 131, 135}
BerExamples == { <<0, 131, 77>>, <<131, 77, 150, 20>>, <<153, 97, 137, 18>> }
BerInputs == SeqsUpTo(BerBytes, MaxBer) \cup BerExamples

\* byte strings for lzf_length: a first byte of every header shape, then
\* header bytes with payload 0 or 1; and the strings of the doctests
FrameFirst == {0, 1, 68, 127, 128, 160, 192, 196, 224, 225, 240, 241, 248, 252, 254, 255}
FrameRest == {128, 65}
FrameExamples ==
    { <<196, 155>>, <<195, 164>>, <<195, 138>>, <<202, 135>>, <<225, 175, 169>>,
      <<224, 167, 156>> }
FrameInputs ==
    {<<>>} \cup FrameExamples
        \cup { <<b>> \o t : b \in FrameFirst, t \in SeqsUpTo(FrameRest, MaxFrame - 1) }

InitCodec ==
    /\ \/ \E raw \in BerInputs : callIn = [fn |-> "unber", raw |-> raw]
       \/ \E raw \in FrameInputs : callIn = [fn |-> "lzf_length", raw |-> raw]
    /\ callOut = None

CallUnber ==
    /\ callIn.fn = "unber"
    /\ callOut = None
    /\ callOut' = Some(unber(callIn.raw))
    /\ UNCHANGED <<callIn, raceVars, keyVars, dateVars, storeVars, commitVars>>

CallLzfLength ==
    /\ callIn.fn = "lzf_length"
    /\ callOut = None
    /\ callOut' = Some(lzf_length(callIn.raw))
    /\ UNCHANGED <<callIn, raceVars, keyVars, dateVars, storeVars, commitVars>>

NextCodec == CallUnber \/ CallLzfLength

\* --------------------------------------------------------------------- trees
\* position of the first byte c of data at or after position p, Len + 1 for none
ScanTo(data, p, c) ==
    LET hits == { j \in p..Len(data) : data[j] = c }
    IN  IF hits = {} THEN Len(data) + 1 ELSE CHOOSE j \in hits : \A k \in hits : j <= k

\* Tree.__iter__ with the position moved on by 20 after the file name
RECURSIVE Tree_iterFrom_short(_, _)
Tree_iterFrom_short(data, p) ==
    IF p > Len(data) THEN <<>>
    ELSE Bind(ScanTo(data, p, SP), LAMBDA sp :
         Bind(ScanTo(data, sp + 1, 0), LAMBDA nul :
            <<[mode  |-> SubSeq(data, p, sp - 1),
               fname |-> SubSeq(data, sp + 1, nul - 1),
               sha   |-> HexEncode(SubSeq(data, nul + 1, Min(nul + 19, Len(data))))]>>
                \o Tree_iterFrom_short(data, nul + 20)))

\* the loop of Tree.__iter__ from position p (1-based) of data
RECURSIVE Tree_iterFrom(_, _)
Tree_iterFrom(data, p) ==
    IF p > Len(data) THEN <<>>
    ELSE Bind(ScanTo(data, p, SP), LAMBDA sp :
         Bind(ScanTo(data, sp + 1, 0), LAMBDA nul :
            <<[mode  |-> SubSeq(data, p, sp - 1),
               fname |-> SubSeq(data, sp + 1, nul - 1),
               sha   |-> HexEncode(SubSeq(data, nul + 1, Min(nul + 20, Len(data))))]>>
                \o Tree_iterFrom(data, nul + 21)))

\* Tree.__iter__ over the content of a tree
Tree_iter(data) == Tree_iterFrom(data, 1)

\* Tree(sha).data against a store of trees (binary key -> stored value): the
\* point lookup, None for a missing key, then decomp
Tree_data(store, sha) ==
    Bind(GitObject_init("tree", sha), LAMBDA t :
        decomp(IF t.obj.bin_sha \in DOMAIN store THEN Some(store[t.obj.bin_sha])
               ELSE None).out[1])

MODE_TREE == Str(<<"4", "0", "0", "0", "0">>)
MODE_FILE == Str(<<"1", "0", "0", "6", "4", "4">>)
SLASH == Ord("/")

\* Tree.traverse with the subtree's records yielded before its own entry
RECURSIVE Tree_traverse_postorder(_, _)
Tree_traverse_postorder(store, sha) ==
    LET RECURSIVE Walk(_, _)
        Walk(entries, k) ==
            IF k > Len(entries) THEN <<>>
            ELSE Bind(entries[k], LAMBDA e :
                    (IF e.mode = MODE_TREE
                     THEN Bind(Tree_traverse_postorder(store, e.sha), LAMBDA sub :
                            [n \in 1..Len(sub) |->
                                [sub[n] EXCEPT !.fname = e.fname \o <<SLASH>> \o @]])
                     ELSE <<>>)
                    \o <<e>> \o Walk(entries, k + 1))
    IN  Walk(Tree_iter(Tree_data(store, sha)), 1)

\* Tree.traverse: each entry, then for a subtree the records of Tree(sha) with
\* the paths prefixed
RECURSIVE Tree_traverse(_, _)
Tree_traverse(store, sha) ==
    LET RECURSIVE Walk(_, _)
        Walk(entries, k) ==
            IF k > Len(entries) THEN <<>>
            ELSE Bind(entries[k], LAMBDA e :
                    <<e>>
                    \o (IF e.mode = MODE_TREE
                        THEN Bind(Tree_traverse(store, e.sha), LAMBDA sub :
                                [n \in 1..Len(sub) |->
                                    [sub[n] EXCEPT !.fname = e.fname \o <<SLASH>> \o @]])
                        ELSE <<>>)
                    \o Walk(entries, k + 1))
    IN  Walk(Tree_iter(Tree_data(store, sha)), 1)

\* Tree.files with the mode test left out
Tree_files_all(store, sha) ==
    Bind(Tree_traverse(store, sha), LAMBDA recs :
        [path \in { recs[n].fname : n \in 1..Len(recs) } |->
            recs[CHOOSE n \in 1..Len(recs) :
                    /\ recs[n].fname = path
                    /\ \A m \in (n + 1)..Len(recs) : recs[m].fname # path].sha])

\* Tree.files: the dict comprehension over traverse(), a later record of a
\* path replacing an earlier one
Tree_files(store, sha) ==
    Bind(Tree_traverse(store, sha), LAMBDA recs :
    Bind({ n \in 1..Len(recs) : recs[n].mode # MODE_TREE }, LAMBDA leaves :
        [path \in { recs[n].fname : n \in leaves } |->
            recs[CHOOSE n \in leaves :
                    /\ recs[n].fname = path
                    /\ \A m \in leaves : m > n => recs[m].fname # path].sha]))

\* Tree.__len__
Tree_len(store, sha) == Cardinality(DOMAIN Tree_files(store, sha))

\* keys of the generated trees and blobs; the blob keys hold NUL and space
KEY_ROOT == Fill(<<16>>, BIN_LEN)
KEY_SUB == Fill(<<17>>, BIN_LEN)
KEY_LEAF == Fill(<<18>>, BIN_LEN)
KEY_BLOB1 == Fill(<<0, 32>>, BIN_LEN)
KEY_BLOB2 == Fill(<<32, 47, 0>>, BIN_LEN)
NAME_A == Str(<<"a">>)
NAME_BC == Str(<<"b", " ", "c">>)
NAME_D == Str(<<"d">>)
NAME_Z == Str(<<"z">>)

\* the entries a generated tree is made of: (mode, name, binary key)
Entry(mode, name, key) == [mode |-> mode, name |-> name, key |-> key]
RootEntries ==
    { Entry(MODE_FILE, NAME_A, KEY_BLOB1), Entry(MODE_FILE, NAME_A, KEY_BLOB2),
      Entry(MODE_FILE, NAME_D, KEY_BLOB1), Entry(MODE_TREE, NAME_D, KEY_SUB),
      Entry(MODE_TREE, NAME_BC, KEY_SUB) }
SubEntries ==
    { Entry(MODE_FILE, NAME_A, KEY_BLOB1), Entry(MODE_FILE, NAME_A, KEY_BLOB2),
      Entry(MODE_TREE, NAME_D, KEY_LEAF) }
LeafEntries == <<Entry(MODE_FILE, NAME_Z, KEY_BLOB2)>>

\* the byte stream of a tree: mode, space, name, NUL, 20 key bytes per entry
RECURSIVE EncodeTree(_)
EncodeTree(es) ==
    IF es = <<>> THEN <<>>
    ELSE es[1].mode \o <<SP>> \o es[1].name \o <<0>> \o es[1].key \o EncodeTree(Tail(es))

\* a forest as the entries of each tree, and the store that holds it (each
\* value stored uncompressed, behind the 00 marker byte)
Forest(root, sub) == (KEY_ROOT :> root) @@ (KEY_SUB :> sub) @@ (KEY_LEAF :> LeafEntries)
StoreOf(forest) == [k \in DOMAIN forest |-> <<0>> \o EncodeTree(forest[k])]

TreeFns == {"iter", "traverse", "files"}

InitTree ==
    /\ \E fn \in TreeFns, root \in SeqsUpTo(RootEntries, MaxEntries),
          sub \in SeqsUpTo(SubEntries, MaxEntries) :
            callIn = [fn |-> fn, forest |-> Forest(root, sub)]
    /\ callOut = None

CallTreeIter ==
    /\ callIn.fn = "iter"
    /\ callOut = None
    /\ callOut' = Some(Tree_iter(Tree_data(StoreOf(callIn.forest), HexEncode(KEY_ROOT))))
    /\ UNCHANGED <<callIn, raceVars, keyVars, dateVars, storeVars, commitVars>>

CallTreeTraverse ==
    /\ callIn.fn = "traverse"
    /\ callOut = None
    /\ callOut' = Some(Tree_traverse(StoreOf(callIn.forest), HexEncode(KEY_ROOT)))
    /\ UNCHANGED <<callIn, raceVars, keyVars, dateVars, storeVars, commitVars>>

CallTreeFiles ==
    /\ callIn.fn = "files"
    /\ callOut = None
    /\ \E store \in {StoreOf(callIn.forest)} :
        callOut' = Some([files |-> Tree_files(store, HexEncode(KEY_ROOT)),
                         len   |-> Tree_len(store, HexEncode(KEY_ROOT))])
    /\ UNCHANGED <<callIn, raceVars, keyVars, dateVars, storeVars, commitVars>>

NextTree == CallTreeIter \/ CallTreeTraverse \/ CallTreeFiles

\* ----------------------------------------------------------------- relations
SEMICOLON == Str(<<";">>)
EMPTY == Str(<<"E", "M", "P", "T", "Y">>)

\* (data and data.split(";")) or []
SplitOrList(data) == IF data = <<>> THEN <<>> ELSE Split(data, SEMICOLON)

\* (data and data.split(";")), iterated: the bytes of "" are no items
SplitOrData(data) == IF data = <<>> THEN <<>> ELSE Split(data, SEMICOLON)

\* the generator filter "if name and name != 'EMPTY'"
NotEmpty(names) == SelectSeq(names, LAMBDA name : name # <<>> /\ name # EMPTY)

\* a relation accessor over the value read_tch handed it (None for a missing
\* key): decomp, then the accessor's own expression
Relation(stored, Expr(_)) ==
    Bind(decomp(stored), LAMBDA d :
        IF d.err # "ok" THEN [err |-> d.err, val |-> None]
        ELSE [err |-> "ok", val |-> Some(Expr(d.out[1]))])

Commit_project_names(stored) == Relation(stored, LAMBDA data : NotEmpty(SplitOrList(data)))
Commit_changed_file_names(stored) == Relation(stored, LAMBDA data : SplitOrList(data))
Commit_files(stored) == Relation(stored, LAMBDA data : NotEmpty(SplitOrList(data)))
Project_author_names(stored) == Relation(stored, LAMBDA data : NotEmpty(SplitOrList(data)))
File_authors(stored) == Relation(stored, LAMBDA data : SplitOrData(data))
Author_files(stored) == Relation(stored, LAMBDA data : SplitOrData(data))
Author_project_names(stored) == Relation(stored, LAMBDA data : NotEmpty(SplitOrList(data)))
Author_torvald(stored) == Relation(stored, LAMBDA data : SplitOrData(data))

\* Relations: stored lists of up to MaxTokens tokens, kept uncompressed
\* behind the 00 marker byte, or no stored value at all
RelTokens == { NAME_A, NAME_BC, EMPTY, <<>> }
RECURSIVE JoinWith(_, _)
JoinWith(parts, sep) ==
    IF parts = <<>> THEN <<>>
    ELSE IF Len(parts) = 1 THEN parts[1]
    ELSE parts[1] \o sep \o JoinWith(Tail(parts), sep)
RelNames == { "Commit.project_names", "Commit.files", "Commit.changed_file_names",
              "Project.author_names", "File.authors", "Author.files",
              "Author.project_names", "Author.torvald" }

InitRel ==
    /\ \E fn \in RelNames, tokens \in SeqsUpTo(RelTokens, MaxTokens), present \in BOOLEAN :
        /\ ~present => tokens = <<>>
        /\ callIn = [fn |-> fn, tokens |-> tokens,
                     stored |-> IF present THEN Some(<<0>> \o JoinWith(tokens, SEMICOLON))
                                ELSE None]
    /\ callOut = None

CallCommitProjectNames ==
    /\ callIn.fn = "Commit.project_names"
    /\ callOut = None
    /\ callOut' = Some(Commit_project_names(callIn.stored))
    /\ UNCHANGED <<callIn, raceVars, keyVars, dateVars, storeVars, commitVars>>

CallCommitFiles ==
    /\ callIn.fn = "Commit.files"
    /\ callOut = None
    /\ callOut' = Some(Commit_files(callIn.stored))
    /\ UNCHANGED <<callIn, raceVars, keyVars, dateVars, storeVars, commitVars>>

CallCommitChangedFileNames ==
    /\ callIn.fn = "Commit.changed_file_names"
    /\ callOut = None
    /\ callOut' = Some(Commit_changed_file_names(callIn.stored))
    /\ UNCHANGED <<callIn, raceVars, keyVars, dateVars, storeVars, commitVars>>

CallProjectAuthorNames ==
    /\ callIn.fn = "Project.author_names"
    /\ callOut = None
    /\ callOut' = Some(Project_author_names(callIn.stored))
    /\ UNCHANGED <<callIn, raceVars, keyVars, dateVars, storeVars, commitVars>>

CallFileAuthors ==
    /\ callIn.fn = "File.authors"
    /\ callOut = None
    /\ callOut' = Some(File_authors(callIn.stored))
    /\ UNCHANGED <<callIn, raceVars, keyVars, dateVars, storeVars, commitVars>>

CallAuthorFiles ==
    /\ callIn.fn = "Author.files"
    /\ callOut = None
    /\ callOut' = Some(Author_files(callIn.stored))
    /\ UNCHANGED <<callIn, raceVars, keyVars, dateVars, storeVars, commitVars>>

CallAuthorProjectNames ==
    /\ callIn.fn = "Author.project_names"
    /\ callOut = None
    /\ callOut' = Some(Author_project_names(callIn.stored))
    /\ UNCHANGED <<callIn, raceVars, keyVars, dateVars, storeVars, commitVars>>

CallAuthorTorvald ==
    /\ callIn.fn = "Author.torvald"
    /\ callOut = None
    /\ callOut' = Some(Author_torvald(callIn.stored))
    /\ UNCHANGED <<callIn, raceVars, keyVars, dateVars, storeVars, commitVars>>

NextRel ==
    \/ CallCommitProjectNames \/ CallCommitFiles \/ CallCommitChangedFileNames
    \/ CallProjectAuthorNames \/ CallFileAuthors \/ CallAuthorFiles
    \/ CallAuthorProjectNames \/ CallAuthorTorvald

\* ---------------------------------------------------------------------- diff
\* thresholds in hundredths; 1 is UNIT
UNIT == 100
Thresholds == {0, 50, UNIT, 150}

\* "threshold >= 1" taken as "threshold > 1"
ExactOnly_strict(threshold) == threshold > UNIT

\* the test "threshold >= 1" of Commit.__sub__
ExactOnly(threshold) == threshold >= UNIT

\* the orders a set may be iterated in
Orders(S) == { o \in [1..Cardinality(S) -> S] : \A i, j \in DOMAIN o : i # j => o[i] # o[j] }

\* a 4-tuple (old_path, new_path, old_sha, new_sha), the absent sides None
Record(old_path, new_path, old_sha, new_sha) ==
    [old_path |-> old_path, new_path |-> new_path, old_sha |-> old_sha, new_sha |-> new_sha]

\* Blob(sha): an object, not a key
BlobOf(sha) == [type |-> "blob", sha |-> sha]

\* the records of the paths on both sides, those with equal keys left out
Modified(new_files, old_files, common) ==
    SelectSeq([n \in DOMAIN common |->
                    Record(Some(common[n]), Some(common[n]),
                           Some(old_files[common[n]]), Some(new_files[common[n]]))],
              LAMBDA r : r.old_sha # r.new_sha)

\* list(self - parent) for the files of the two trees, with the orders the
\* three path sets happen to be iterated in. Below 1 the matcher is handed
\* Blob objects: sm.set_seq2(deleted_blob) takes len() of the blob and then
\* enumerates it, and a Blob has no __iter__ or __getitem__, so the first
\* added path tried against a deleted one ends the generator with TypeError
Commit_sub(new_files, old_files, threshold, common, added, deleted) ==
    Bind(Modified(new_files, old_files, common), LAMBDA modified :
        IF ExactOnly(threshold)
        THEN [err   |-> "ok",
              recs  |-> modified
                        \o [n \in DOMAIN added |->
                                Record(None, Some(added[n]), None, Some(new_files[added[n]]))]
                        \o [n \in DOMAIN deleted |->
                                Record(Some(deleted[n]), None, Some(old_files[deleted[n]]), None)],
              blobs |-> 0,
              lens  |-> 0]
        ELSE IF added # <<>> /\ deleted # <<>>
        THEN [err   |-> "TypeError",
              recs  |-> modified,
              blobs |-> Len(added) + Len(deleted),
              lens  |-> 1]
        ELSE [err   |-> "ok",
              recs  |-> modified
                        \o [n \in DOMAIN added |->
                                Record(None, Some(added[n]), None,
                                       Some(BlobOf(new_files[added[n]])))]
                        \o [n \in DOMAIN deleted |->
                                Record(Some(deleted[n]), None,
                                       Some(BlobOf(old_files[deleted[n]])), None)],
              blobs |-> Len(added) + Len(deleted),
              lens  |-> 0])

\* the files of a commit's tree: up to MaxPaths paths, each with one of two keys
DiffPaths == { NAME_A, NAME_BC, NAME_D, NAME_Z }
DiffKeys == { HexEncode(KEY_BLOB1), HexEncode(KEY_BLOB2) }
FileMaps == UNION { [ps -> DiffKeys] : ps \in { q \in SUBSET DiffPaths : Cardinality(q) <= MaxPaths } }

InitDiff ==
    /\ \E new_files \in FileMaps, old_files \in FileMaps, threshold \in Thresholds :
        callIn = [fn |-> "sub", new_files |-> new_files, old_files |-> old_files,
                  threshold |-> threshold]
    /\ callOut = None

CallSub ==
    /\ callIn.fn = "sub"
    /\ callOut = None
    /\ \E new_paths \in {DOMAIN callIn.new_files}, old_paths \in {DOMAIN callIn.old_files} :
        \E common \in Orders(new_paths \cap old_paths),
           added \in Orders(new_paths \ old_paths),
           deleted \in Orders(old_paths \ new_paths) :
            callOut' = Some(Commit_sub(callIn.new_files, callIn.old_files, callIn.threshold,
                                       common, added, deleted))
    /\ UNCHANGED <<callIn, raceVars, keyVars, dateVars, storeVars, commitVars>>

NextDiff == CallSub

\* ------------------------------------------------------------------ projects
MERGE_BUTTON ==
    Str(<<"G", "i", "t", "H", "u", "b", " ", "M", "e", "r", "g", "e", " ",
          "B", "u", "t", "t", "o", "n", " ", "<", "m", "e", "r", "g", "e", "-",
          "b", "u", "t", "t", "o", "n", "@", "g", "i", "t", "h", "u", "b", ".",
          "c", "o", "m", ">">>)
SOMEONE == Str(<<"J", " ", "D", " ", "<", "j", ">">>)

\* DAY_Z: the epoch in the timezone of offset 0
DAY_Z == [ts |-> 0, offset |-> 0]

\* Commit(sha).data against a store of commits (binary key -> stored value)
Commit_data(store, sha) ==
    Bind(GitObject_init("commit", sha), LAMBDA c :
        decomp(IF c.obj.bin_sha \in DOMAIN store THEN Some(store[c.obj.bin_sha])
               ELSE None).out[1])

\* Project.__iter__ from the k-th of commit_shas on: Commit(sha).author parses
\* the commit; only ObjectNotFound would be skipped, and nothing raises it
RECURSIVE Project_iterFrom(_, _, _, _)
Project_iterFrom(store, commit_shas, k, now) ==
    IF k > Len(commit_shas) THEN [err |-> "ok", commits |-> <<>>]
    ELSE Bind(Commit_parse([sha |-> commit_shas[k], data |-> Commit_data(store, commit_shas[k])],
                           now), LAMBDA c :
            IF c.err # "ok" THEN [err |-> c.err, commits |-> <<>>]
            ELSE Bind(Project_iterFrom(store, commit_shas, k + 1, now), LAMBDA rest :
                    IF rest.err # "ok" THEN rest
                    ELSE IF c.dict["author"] # Some(MERGE_BUTTON)
                    THEN [err |-> "ok",
                          commits |-> <<[sha |-> commit_shas[k],
                                         parent_shas |-> c.dict["parent_shas"][1],
                                         authored_at |-> c.dict["authored_at"]]>>
                                      \o rest.commits]
                    ELSE rest))

\* Project.commits with a date equal to the earliest dated root's replaced too
Project_commits_inclusive(store, commit_shas, now) ==
    Bind(Project_iterFrom(store, commit_shas, 1, now), LAMBDA it :
        IF it.err # "ok" THEN it
        ELSE
        Bind({ n \in DOMAIN it.commits :
                it.commits[n].parent_shas = <<>> /\ it.commits[n].authored_at # None },
             LAMBDA tails :
        Bind(IF tails # {}
             THEN CHOOSE d \in { it.commits[n].authored_at[1].ts : n \in tails } :
                    \A n \in tails : d <= it.commits[n].authored_at[1].ts
             ELSE DAY_Z.ts, LAMBDA min_date :
            [err |-> "ok",
             commits |-> [n \in DOMAIN it.commits |->
                            IF it.commits[n].authored_at # None
                               /\ it.commits[n].authored_at[1].ts <= min_date
                            THEN [it.commits[n] EXCEPT !.authored_at = None]
                            ELSE it.commits[n]]])))

\* Project.commits: a date earlier than the earliest dated root commit is
\* replaced by None
Project_commits(store, commit_shas, now) ==
    Bind(Project_iterFrom(store, commit_shas, 1, now), LAMBDA it :
        IF it.err # "ok" THEN it
        ELSE
        Bind({ n \in DOMAIN it.commits :
                it.commits[n].parent_shas = <<>> /\ it.commits[n].authored_at # None },
             LAMBDA tails :
        Bind(IF tails # {}
             THEN CHOOSE d \in { it.commits[n].authored_at[1].ts : n \in tails } :
                    \A n \in tails : d <= it.commits[n].authored_at[1].ts
             ELSE DAY_Z.ts, LAMBDA min_date :
            [err |-> "ok",
             commits |-> [n \in DOMAIN it.commits |->
                            IF it.commits[n].authored_at # None
                               /\ it.commits[n].authored_at[1].ts < min_date
                            THEN [it.commits[n] EXCEPT !.authored_at = None]
                            ELSE it.commits[n]]])))

\* the sort key "c.authored_at or DAY_Z", as an instant
SortKey(c) == IF c.authored_at = None THEN DAY_Z.ts ELSE c.authored_at[1].ts

\* a variant of Project.head that takes the earliest of the tips
Project_head_earliest(commits, order) ==
    Bind(commits, LAMBDA cs :
        IF cs.err # "ok" THEN [err |-> cs.err, head |-> None]
        ELSE
        Bind({ cs.commits[n].sha : n \in DOMAIN cs.commits }
                \ UNION { { cs.commits[n].parent_shas[i] : i \in DOMAIN cs.commits[n].parent_shas }
                            : n \in DOMAIN cs.commits }, LAMBDA heads :
        Bind(SelectSeq(order, LAMBDA n : cs.commits[n].sha \in heads), LAMBDA hs :
            IF hs = <<>> THEN [err |-> "IndexError", head |-> None]
            ELSE [err |-> "ok",
                  head |-> Some(cs.commits[
                            hs[CHOOSE i \in DOMAIN hs :
                                /\ \A j \in DOMAIN hs :
                                    SortKey(cs.commits[hs[j]]) >= SortKey(cs.commits[hs[i]])
                                /\ \A j \in DOMAIN hs :
                                    j < i => SortKey(cs.commits[hs[j]]) > SortKey(cs.commits[hs[i]])]].sha)])))

\* Project.head over the outcome of self.commits: the commits by key, the keys
\* that are no parent of another, and the last of them in the stable sort by
\* date; order is the order the dict of commits is iterated in
Project_head(commits, order) ==
    Bind(commits, LAMBDA cs :
        IF cs.err # "ok" THEN [err |-> cs.err, head |-> None]
        ELSE
        Bind({ cs.commits[n].sha : n \in DOMAIN cs.commits }
                \ UNION { { cs.commits[n].parent_shas[i] : i \in DOMAIN cs.commits[n].parent_shas }
                            : n \in DOMAIN cs.commits }, LAMBDA heads :
        Bind(SelectSeq(order, LAMBDA n : cs.commits[n].sha \in heads), LAMBDA hs :
            IF hs = <<>> THEN [err |-> "IndexError", head |-> None]
            ELSE [err |-> "ok",
                  head |-> Some(cs.commits[
                            hs[CHOOSE i \in DOMAIN hs :
                                /\ \A j \in DOMAIN hs :
                                    SortKey(cs.commits[hs[j]]) <= SortKey(cs.commits[hs[i]])
                                /\ \A j \in DOMAIN hs :
                                    j > i => SortKey(cs.commits[hs[j]]) < SortKey(cs.commits[hs[i]])]].sha)])))

\* the commits of a generated project: three keys, each missing from the
\* store or a commit by someone or by the merge button, dated 0..MaxTs (a
\* date after the clock MaxClock parses as None), with parents among the keys
\* before it
SHA_1 == Fill(Str(<<"c", "1">>), HEX_LEN)
SHA_2 == Fill(Str(<<"c", "2">>), HEX_LEN)
SHA_3 == Fill(Str(<<"c", "3">>), HEX_LEN)
ProjectShas == <<SHA_1, SHA_2, SHA_3>>
ParentChoices == <<{<<>>}, {<<>>, <<SHA_1>>}, {<<>>, <<SHA_1>>, <<SHA_2>>, <<SHA_1, SHA_2>>}>>
Stored(k) == { None } \cup { Some(c) : c \in [author : {SOMEONE, MERGE_BUTTON},
                                              ts : 0..MaxTs,
                                              parent_shas : ParentChoices[k]] }

RECURSIVE ParentLines(_)
ParentLines(shas) ==
    IF shas = <<>> THEN <<>>
    ELSE KEY_PARENT \o <<SP>> \o shas[1] \o <<NL>> \o ParentLines(Tail(shas))

\* the content of a commit: tree, parents, author and date, message
CommitData(c) ==
    KEY_TREE \o <<SP>> \o SHA_T \o <<NL>> \o ParentLines(c.parent_shas)
        \o KEY_AUTHOR \o <<SP>> \o c.author \o <<SP>>
        \o (IF c.ts < 0 THEN <<MINUS>> \o DateString(-c.ts, "+", 0, 0)
            ELSE DateString(c.ts, "+", 0, 0))
        \o <<NL, NL>> \o MESSAGE

\* the store of commits: each value uncompressed behind the 00 marker byte
CommitStore(cs) ==
    [b \in { HexDecode(ProjectShas[k]) : k \in { n \in 1..3 : cs[n] # None } } |->
        <<0>> \o CommitData(cs[CHOOSE k \in 1..3 : HexDecode(ProjectShas[k]) = b][1])]

InitProject ==
    /\ \E c1 \in Stored(1), c2 \in Stored(2), c3 \in Stored(3) :
        callIn = [fn |-> "head", commits |-> <<c1, c2, c3>>]
    /\ callOut = None

CallHead ==
    /\ callIn.fn = "head"
    /\ callOut = None
    /\ \E store \in {CommitStore(callIn.commits)} :
        \E cs \in {Project_commits(store, ProjectShas, MaxClock)} :
            \E order \in Orders(DOMAIN cs.commits) :
                callOut' = Some(Project_head(cs, order))
    /\ UNCHANGED <<callIn, raceVars, keyVars, dateVars, storeVars, commitVars>>

NextProject == CallHead

\* ------------------------------------------------------------- project graph
\* Project.tail over the outcome of self.commits: the first key, in the order
\* the dict is iterated in, that is the first parent of a commit and has no
\* parents itself; None when the loop ends without one
Project_tail(commits, order) ==
    Bind(commits, LAMBDA cs :
        IF cs.err # "ok" THEN [err |-> cs.err, tail |-> None]
        ELSE
        Bind({ cs.commits[n].parent_shas[1] :
                n \in { m \in DOMAIN cs.commits : cs.commits[m].parent_shas # <<>> } },
             LAMBDA pts :
        Bind(SelectSeq(order, LAMBDA n : cs.commits[n].sha \in pts
                                         /\ cs.commits[n].parent_shas = <<>>), LAMBDA found :
            [err |-> "ok",
             tail |-> IF found = <<>> THEN None ELSE Some(cs.commits[found[1]].sha)])))

\* the loop of Project.commits_fp with the chain cut at the first key that is
\* not in the dict of commits
RECURSIVE commits_fp_loop_members(_, _, _, _)
commits_fp_loop_members(store, loaded, cur, now) ==
    IF cur.parent_shas = <<>> THEN [err |-> "ok", shas |-> <<cur.sha>>]
    ELSE Bind(cur.parent_shas[1], LAMBDA first_parent :
            IF first_parent \notin DOMAIN loaded
            THEN [err |-> "ok", shas |-> <<cur.sha>>]
            ELSE Bind(commits_fp_loop_members(store, loaded, loaded[first_parent], now),
                      LAMBDA rest : [rest EXCEPT !.shas = <<cur.sha>> \o @]))

\* the loop of Project.commits_fp from a commit on: its first parent is read
\* (for a commit built from a bare key this parses its content), the commit is
\* yielded, and the next one is taken from the dict or built from the key
RECURSIVE commits_fp_loop(_, _, _, _)
commits_fp_loop(store, loaded, cur, now) ==
    IF cur.parent_shas = <<>> THEN [err |-> "ok", shas |-> <<cur.sha>>]
    ELSE Bind(cur.parent_shas[1], LAMBDA first_parent :
            IF first_parent \in DOMAIN loaded
            THEN Bind(commits_fp_loop(store, loaded, loaded[first_parent], now), LAMBDA rest :
                    [rest EXCEPT !.shas = <<cur.sha>> \o @])
            ELSE Bind(Commit_parse([sha |-> first_parent,
                                    data |-> Commit_data(store, first_parent)], now),
                      LAMBDA c :
                    IF c.err # "ok" THEN [err |-> c.err, shas |-> <<cur.sha>>]
                    ELSE Bind(commits_fp_loop(store, loaded,
                                              [sha |-> first_parent,
                                               parent_shas |-> c.dict["parent_shas"][1],
                                               authored_at |-> c.dict["authored_at"]], now),
                              LAMBDA rest : [rest EXCEPT !.shas = <<cur.sha>> \o @])))

\* a variant that starts the chain at the first commit the dict is iterated
\* in, whatever its date
Project_commits_fp_first(store, commits, order, now) ==
    Bind(commits, LAMBDA cs :
        IF cs.err # "ok" THEN [err |-> cs.err, shas |-> <<>>]
        ELSE IF cs.commits = <<>> THEN [err |-> "ValueError", shas |-> <<>>]
        ELSE commits_fp_loop(
                store,
                [sha \in { cs.commits[n].sha : n \in DOMAIN cs.commits } |->
                    cs.commits[CHOOSE n \in DOMAIN cs.commits : cs.commits[n].sha = sha]],
                cs.commits[order[1]],
                now))

\* list(c.sha for c in Project.commits_fp): max() takes the first of the
\* latest commits in the order the dict is iterated in
Project_commits_fp(store, commits, order, now) ==
    Bind(commits, LAMBDA cs :
        IF cs.err # "ok" THEN [err |-> cs.err, shas |-> <<>>]
        ELSE IF cs.commits = <<>> THEN [err |-> "ValueError", shas |-> <<>>]
        ELSE commits_fp_loop(
                store,
                [sha \in { cs.commits[n].sha : n \in DOMAIN cs.commits } |->
                    cs.commits[CHOOSE n \in DOMAIN cs.commits : cs.commits[n].sha = sha]],
                cs.commits[order[CHOOSE i \in DOMAIN order :
                    /\ \A j \in DOMAIN order :
                        SortKey(cs.commits[order[j]]) <= SortKey(cs.commits[order[i]])
                    /\ \A j \in DOMAIN order :
                        j < i => SortKey(cs.commits[order[j]]) < SortKey(cs.commits[order[i]])]],
                now))

\* the archives and projects of the graph calls. SHA_1: absent from the
\* archive or a parentless commit, listed by the project or not; SHA_2: by
\* someone or by the merge button, dated from before the epoch on; SHA_3: by
\* someone. The project lists its keys in the order MemberOrder
MemberOrder == <<SHA_2, SHA_1, SHA_3>>
GraphFirst ==
    [listed : BOOLEAN, commit : {None}]
        \cup [listed : {FALSE}, commit : {Some([author |-> SOMEONE, ts |-> 1, parent_shas |-> <<>>])}]
        \cup [listed : {TRUE},
              commit : { Some(c) : c \in [author : {SOMEONE}, ts : 1..MaxTs, parent_shas : {<<>>}] }]
GraphSecond ==
    { Some(c) : c \in [author : {SOMEONE, MERGE_BUTTON}, ts : (-1)..MaxTs,
                       parent_shas : ParentChoices[2]] }
GraphThird ==
    { Some(c) : c \in [author : {SOMEONE}, ts : 0..MaxTs, parent_shas : ParentChoices[3]] }
GraphFns == {"iter", "commits", "tail", "commits_fp"}

InitGraph ==
    /\ \E fn \in GraphFns, c1 \in GraphFirst, c2 \in GraphSecond, c3 \in GraphThird :
        callIn = [fn |-> fn, commits |-> <<c1.commit, c2, c3>>,
                  commit_shas |-> SelectSeq(MemberOrder, LAMBDA sha : sha # SHA_1 \/ c1.listed)]
    /\ callOut = None

CallIter ==
    /\ callIn.fn = "iter"
    /\ callOut = None
    /\ callOut' = Some(Project_iterFrom(CommitStore(callIn.commits), callIn.commit_shas, 1,
                                        MaxClock))
    /\ UNCHANGED <<callIn, raceVars, keyVars, dateVars, storeVars, commitVars>>

CallCommits ==
    /\ callIn.fn = "commits"
    /\ callOut = None
    /\ callOut' = Some(Project_commits(CommitStore(callIn.commits), callIn.commit_shas, MaxClock))
    /\ UNCHANGED <<callIn, raceVars, keyVars, dateVars, storeVars, commitVars>>

CallTail ==
    /\ callIn.fn = "tail"
    /\ callOut = None
    /\ \E cs \in {Project_commits(CommitStore(callIn.commits), callIn.commit_shas, MaxClock)} :
        \E order \in Orders(DOMAIN cs.commits) :
            callOut' = Some(Project_tail(cs, order))
    /\ UNCHANGED <<callIn, raceVars, keyVars, dateVars, storeVars, commitVars>>

CallCommitsFp ==
    /\ callIn.fn = "commits_fp"
    /\ callOut = None
    /\ \E store \in {CommitStore(callIn.commits)} :
        \E cs \in {Project_commits(store, callIn.commit_shas, MaxClock)} :
            \E order \in Orders(DOMAIN cs.commits) :
                callOut' = Some(Project_commits_fp(store, cs, order, MaxClock))
    /\ UNCHANGED <<callIn, raceVars, keyVars, dateVars, storeVars, commitVars>>

NextGraph == CallIter \/ CallCommits \/ CallTail \/ CallCommitsFp

\* ----------------------------------------------------------------- threads
\* threads reading the memoized fields of one shared Commit instance. The
\* wrapper of cached_property takes no lock, so a thread can be switched out
\* between its hasattr test, the call of func, the setattr and the getattr
Threads == 1..MaxThreads
ThreadFields == CachedFields["commit"]

\* a variant of the test that never finds the attribute
wrapper_hasattr_never(set, name) == FALSE

\* hasattr(self, key) with key = "_" + func.__name__
wrapper_hasattr(set, name) == name \in DOMAIN set

InitThreads ==
    /\ frames = [t \in Threads |-> [pc |-> "idle", name |-> "", val |-> None]]
    /\ attrs = <<>>
    /\ raceLog = [runs |-> [name \in ThreadFields |-> 0], overlapped |-> {}]

\* thread t reads the property name: the wrapper is entered
WrapperEnter(t, name) ==
    /\ frames[t].pc = "idle"
    /\ frames' = [frames EXCEPT ![t] = [pc |-> "test", name |-> name, val |-> None]]
    /\ raceLog' = [raceLog EXCEPT !.overlapped =
                    IF \E u \in Threads \ {t} : frames[u].pc # "idle" /\ frames[u].name = name
                    THEN @ \cup {name} ELSE @]
    /\ UNCHANGED <<attrs, keyVars, dateVars, storeVars, commitVars, callVars>>

\* if not hasattr(self, key)
WrapperTest(t) ==
    /\ frames[t].pc = "test"
    /\ frames' = [frames EXCEPT ![t].pc =
                    IF wrapper_hasattr(attrs, frames[t].name) THEN "get" ELSE "func"]
    /\ UNCHANGED <<attrs, raceLog, keyVars, dateVars, storeVars, commitVars, callVars>>

\* func(self): one more run of the computation; its result is a new object
WrapperFunc(t) ==
    /\ frames[t].pc = "func"
    /\ raceLog' = [raceLog EXCEPT !.runs[frames[t].name] = @ + 1]
    /\ frames' = [frames EXCEPT ![t].pc = "set",
                                ![t].val = Some(raceLog.runs[frames[t].name] + 1)]
    /\ UNCHANGED <<attrs, keyVars, dateVars, storeVars, commitVars, callVars>>

\* setattr(self, key, <the result>): an attribute set by another thread in the
\* meantime is overwritten
WrapperSet(t) ==
    /\ frames[t].pc = "set"
    /\ attrs' = (frames[t].name :> frames[t].val[1]) @@ attrs
    /\ frames' = [frames EXCEPT ![t].pc = "get"]
    /\ UNCHANGED <<raceLog, keyVars, dateVars, storeVars, commitVars, callVars>>

\* return getattr(self, key)
WrapperGet(t) ==
    /\ frames[t].pc = "get"
    /\ frames' = [frames EXCEPT ![t].pc = "idle", ![t].val = Some(attrs[frames[t].name])]
    /\ UNCHANGED <<attrs, raceLog, keyVars, dateVars, storeVars, commitVars, callVars>>

NextThreads ==
    \/ \E t \in Threads, name \in ThreadFields : WrapperEnter(t, name)
    \/ \E t \in Threads : WrapperTest(t)
    \/ \E t \in Threads : WrapperFunc(t)
    \/ \E t \in Threads : WrapperSet(t)
    \/ \E t \in Threads : WrapperGet(t)

\* ------------------------------------------------------------------ claims
\* the key of instance i has no entry in the store of dtype
AbsentFrom(dtype, i) ==
    LET path == resolve_path(dtype, insts[i].bin_sha)
    IN  path \notin DOMAIN disk.tch \/ insts[i].bin_sha \notin DOMAIN disk.tch[path]

\* C1: reading the raw content of a Commit or Tree whose key is absent from
\* its random-access store fails with ObjectNotFound; it never returns a
\* value and never fails with another error.
C1_AbsentObjectNotFound ==
    (/\ last.op = "access"
     /\ last.field = "data"
     /\ ~last.hit
     /\ insts[last.inst].type \in {"commit", "tree"}
     /\ AbsentFrom(IF insts[last.inst].type = "commit" THEN "commit_random"
                   ELSE "tree_random", last.inst))
        => last.err = "ObjectNotFound"

\* C2: reading the position or the content of a Blob whose key is absent from
\* the blob offset index fails with ObjectNotFound, and the content file has
\* not been read.
C2_AbsentBlobNotFound ==
    (/\ last.op = "access"
     /\ ~last.hit
     /\ insts[last.inst].type = "blob"
     /\ "position" \notin DOMAIN insts[last.inst].cache
     /\ AbsentFrom("blob_offset", last.inst))
        => last.err = "ObjectNotFound" /\ last.binReads = 0

\* C9: a memoized field is computed at most once per instance: an access to a
\* field that already holds a value does no store lookup, no content read and
\* no computation and returns the value of the first successful access; the
\* cached values never change; an access that fails leaves its field unset.
C9_MemoizedOnce ==
    /\ \A i \in 1..Len(insts) :
            /\ DOMAIN insts[i].cache = DOMAIN firsts[i]
            /\ \A name \in DOMAIN firsts[i] : insts[i].cache[name] = firsts[i][name]
    /\ (last.op = "access" /\ last.hit)
            => /\ last.err = "ok"
               /\ last.reads = 0 /\ last.binReads = 0 /\ last.runs = 0
               /\ last.val = Some(firsts[last.inst][last.field])
    /\ (last.op = "access" /\ last.err # "ok")
            => last.field \notin DOMAIN insts[last.inst].cache

\* a second access to a field that the first access had filled
C9_Witness ==
    /\ last.op = "access"
    /\ last.hit
    /\ last.val = Some(firsts[last.inst][last.field])

\* the path _get_tch pools a given path under
PoolKey(path0) == IF path0[Len(path0)] = ".tch" THEN path0 ELSE Append(path0, ".tch")

\* C10: the pool holds exactly one handle per distinct path looked up, a path
\* with and without '.tch' being one path; each pooled handle was created and
\* opened once; a handle in the pool is never replaced or removed.
C10_OneHandlePerPath ==
    /\ [](/\ DOMAIN pool = { PoolKey(path0) : path0 \in asked }
          /\ \A path \in DOMAIN pool :
                poolLog[path].made = 1 /\ poolLog[path].opens = 1)
    /\ [][\A path \in DOMAIN pool : path \in DOMAIN pool' /\ pool'[path] = pool[path]]_vars

\* one shard was looked up both with and without the suffix
C10_Witness ==
    \E path0 \in asked :
        /\ path0[Len(path0)] # ".tch"
        /\ Append(path0, ".tch") \in asked
        /\ Cardinality(DOMAIN pool) < Cardinality(asked)

\* entry i of a header lies inside a signature block: a gpgsig line opened
\* one before it and no END PGP SIGNATURE line has come since
InsideSignature(es, i) ==
    \E j \in 1..(i - 1) :
        /\ es[j] = "gpgsig_open"
        /\ \A k \in (j + 1)..(i - 1) : es[k] \notin {"gpgsig", "gpgsig_fields"}

\* the entries with a key and no value, and the other entries that stop a parse
BareKinds == {"parent_bare", "unknown_bare"}
StopKinds == BareKinds \cup {"tree_bad", "author_short"}

\* the first entry outside a signature block whose kind is in kinds, 0 for none
FirstOf(es, kinds) ==
    LET hits == { i \in 1..Len(es) : es[i] \in kinds /\ ~InsideSignature(es, i) }
    IN  IF hits = {} THEN 0 ELSE CHOOSE i \in hits : \A j \in hits : i <= j

\* the parse of the commit's content, from a state with no attribute set
FullParse == Commit_parse([commit EXCEPT !.dict = <<>>], commitNow)

\* C3: header parsing is all-or-nothing: either no header attribute is
\* populated or all of them hold the values of one complete successful parse;
\* an access served without parsing never follows a failed parse.
C3_AllOrNothing ==
    /\ commit.dict # <<>> => (FullParse.err = "ok" /\ commit.dict = FullParse.dict)
    /\ (commitLast.attr # "" /\ ~commitLast.parsed) => FullParse.err = "ok"

\* C4: a header line outside a signature block, not starting with a space,
\* whose key is none of tree, parent, author, committer, gpgsig fails the parse
\* with 'Unexpected header in commit', with or without a value after the key.
C4_UnknownKeyFatal ==
    (/\ commitLast.parsed
     /\ commitIn.body # None
     /\ FirstOf(commitIn.entries, {"unknown_valued", "unknown_bare"}) # 0
     /\ \/ FirstOf(commitIn.entries, StopKinds) = 0
        \/ FirstOf(commitIn.entries, StopKinds)
              >= FirstOf(commitIn.entries, {"unknown_valued", "unknown_bare"}))
        => /\ commitLast.err = "ValueError"
           /\ commitLast.msg = <<UNEXPECTED_HEADER, commit.sha>>

\* a header without its entries of an unknown key with a value that lie
\* outside a signature block
RECURSIVE WithoutValued(_, _)
WithoutValued(es, i) ==
    IF i > Len(es) THEN <<>>
    ELSE IF es[i] = "unknown_valued" /\ ~InsideSignature(es, i)
    THEN WithoutValued(es, i + 1)
    ELSE <<es[i]>> \o WithoutValued(es, i + 1)

\* the parse of the same commit with those entries left out
ParseWithoutValued ==
    Commit_parse([commit EXCEPT
                    !.data = DataOf(WithoutValued(commitIn.entries, 1), commitIn.body),
                    !.dict = <<>>], commitNow)

\* C4 (amended): a header line outside a signature block that has a key and
\* no value fails the parse with 'Unexpected header in commit <sha>' whatever
\* its key, when nothing failed before it; a line with a key other than tree,
\* parent, author, committer, gpgsig and with a value is skipped: the parse
\* ends as the parse of the commit without that line does.
C4_OnlyBareLineFatal ==
    (commitLast.parsed /\ commitIn.body # None) =>
        /\ (/\ FirstOf(commitIn.entries, StopKinds) # 0
            /\ commitIn.entries[FirstOf(commitIn.entries, StopKinds)] \in BareKinds)
                => /\ commitLast.err = "ValueError"
                   /\ commitLast.msg = <<UNEXPECTED_HEADER, commit.sha>>
        /\ commitLast.err = ParseWithoutValued.err
        /\ commitLast.msg = ParseWithoutValued.msg
        /\ commit.dict = ParseWithoutValued.dict

\* a parse that went past a valued line of an unknown key and read the tree
\* line behind it
C4_Witness ==
    /\ commitLast.parsed
    /\ commitLast.err = "ok"
    /\ commitIn.body # None
    /\ \E i \in 1..Len(commitIn.entries), j \in 1..Len(commitIn.entries) :
          /\ i < j
          /\ commitIn.entries[i] = "unknown_valued"
          /\ commitIn.entries[j] = "tree"
          /\ ~InsideSignature(commitIn.entries, j)
    /\ commit.dict["tree"] # None

\* the entries of a commit whose only defects are in the dates
DateDefectKinds == {"author_short", "committer_future", "committer_badts"}
SoundKinds == {"tree", "parent", "author", "continuation", "gpgsig"}
Count(es, kind) == Cardinality({ i \in 1..Len(es) : es[i] = kind })

\* C5: a malformed, missing or future timestamp never fails the commit
\* parse: the date attribute is None, the identity attribute is set and the
\* other header lines are parsed.
C5_DateNeverFailsParse ==
    (/\ commitLast.parsed
     /\ commitIn.body # None
     /\ \A i \in 1..Len(commitIn.entries) :
            commitIn.entries[i] \in SoundKinds \cup DateDefectKinds)
        => /\ commitLast.err = "ok"
           /\ (Count(commitIn.entries, "author_short") > 0)
                => commit.dict["author"] # None
           /\ (/\ Count(commitIn.entries, "author_short") > 0
               /\ Count(commitIn.entries, "author") = 0)
                => commit.dict["authored_at"] = None
           /\ (Count(commitIn.entries, "committer_future")
                  + Count(commitIn.entries, "committer_badts") > 0)
                => commit.dict["committer"] # None /\ commit.dict["committed_at"] = None
           /\ (Count(commitIn.entries, "tree") > 0) => commit.dict["tree"] # None
           /\ commit.dict["parent_shas"]
                = Some([i \in 1..Count(commitIn.entries, "parent") |-> SHA_P])

\* C6: a well-formed, non-future 'ts +hhmm' / 'ts -hhmm' with hh in 00..23 and
\* mm in 00..59 parses to the instant ts with an offset of exactly hh hours
\* and mm minutes, signed.
C6_OffsetIsHoursAndMinutes ==
    (dateOut # None /\ dateIn.hh <= 23 /\ dateIn.mm <= 59 /\ dateIn.ts <= dateNow)
        => /\ dateOut[1].err = "ok"
           /\ dateOut[1].dt =
                Some([ts |-> dateIn.ts,
                      offset |-> (IF dateIn.sgn = "-" THEN -1 ELSE 1)
                                    * (60 * dateIn.hh + dateIn.mm)])

\* C7: objects of one variant built from the hex form and from the binary form
\* of the same key are equal, hash alike and expose the same hex key; objects
\* of different variants with the same key are not equal.
C7_IdentityByKeyBytes ==
    \A s \in Slots, t \in Slots :
        (made[s] # None /\ made[t] # None /\ made[s][1].err = "ok" /\ made[t][1].err = "ok") =>
            LET a == made[s][1].obj
                b == made[t][1].obj
            IN  /\ (/\ a.type = b.type
                    /\ Len(made[t][1].input) = BIN_LEN
                    /\ made[s][1].input = HexEncode(made[t][1].input))
                        => /\ Base_eq(a, b)
                           /\ Base_hash(a) = Base_hash(b)
                           /\ a.sha = b.sha
                /\ (a.type # b.type) => ~Base_eq(a, b)

\* C8: construction succeeds exactly for a 20-byte binary key or a 40-character
\* hex key and fails with the invalid-key error (ValueError) for every other
\* input; on success the two forms convert into each other.
ValidKey(sha) == Len(sha) = BIN_LEN \/ (Len(sha) = HEX_LEN /\ IsHex(sha))
C8_ConstructValidatesKey ==
    \A s \in Slots :
        made[s] # None =>
            LET r == made[s][1]
            IN  /\ (r.err = "ok") <=> ValidKey(r.input)
                /\ ~ValidKey(r.input) => r.err = "ValueError"
                /\ r.err = "ok" =>
                        /\ HexDecode(r.obj.sha) = r.obj.bin_sha
                        /\ HexEncode(r.obj.bin_sha) = r.obj.sha

\* positions of the terminators (high bit clear) of a byte string, ascending
Terminators(s) == { i \in 1..Len(s) : s[i] < 128 }
RECURSIVE Pow(_, _)
Pow(b, e) == IF e = 0 THEN 1 ELSE b * Pow(b, e - 1)

\* p * b^e, with no power taken for p = 0
Scaled(p, b, e) == IF p = 0 THEN 0 ELSE p * Pow(b, e)

\* big-endian base-b value of the payloads (byte mod b) of s[from..to]
RECURSIVE GroupValue(_, _, _, _)
GroupValue(s, from, to, b) ==
    IF from > to THEN 0
    ELSE Scaled(s[from] % b, b, to - from) + GroupValue(s, from + 1, to, b)

\* C11: unber returns one integer per byte with the high bit clear, in input
\* order, each the big-endian base-128 value of the 7-bit payloads of the
\* bytes since the previous such byte; bytes after the last one give nothing.
C11_UnberGroups ==
    (callIn.fn = "unber" /\ callOut # None) =>
        LET s   == callIn.raw
            out == callOut[1]
            T   == Terminators(s)
        IN  /\ Len(out) = Cardinality(T)
            /\ \A t \in T :
                  LET k    == Cardinality({ u \in T : u <= t })
                      prev == { u \in T : u < t }
                      from == IF prev = {} THEN 1
                              ELSE 1 + CHOOSE u \in prev : \A v \in prev : v <= u
                  IN  out[k] = GroupValue(s, from, t, 128)
            /\ (s = <<0, 131, 77>>) => out = <<0, 461>>
            /\ (s = <<131, 77, 150, 20>>) => out = <<461, 2836>>

\* a decoded string with two integers and a discarded unterminated tail
C11_Witness ==
    /\ callIn.fn = "unber"
    /\ callOut # None
    /\ Len(callOut[1]) = 2
    /\ callIn.raw[Len(callIn.raw)] >= 128
    /\ callOut[1][2] > 127

\* the header size a first byte announces: the bytes 0xxxxxxx, 1x0xxxxx,
\* 1x10xxxx, ... of Compress::LZF; 0 when every marker bit is set
Bit(b, m) == (b \div m) % 2 = 1
HeaderSize(b) ==
    IF ~Bit(b, 128) THEN 1
    ELSE IF ~Bit(b, 32) THEN 2
    ELSE IF ~Bit(b, 16) THEN 3
    ELSE IF ~Bit(b, 8) THEN 4
    ELSE IF ~Bit(b, 4) THEN 5
    ELSE IF ~Bit(b, 2) THEN 6
    ELSE IF ~Bit(b, 1) THEN 7
    ELSE 0

\* the size a whole header encodes: the bits of the first byte below its
\* marker, then the low 6 bits of each further header byte
HeaderValue(raw) ==
    LET h == HeaderSize(raw[1])
        m == IF h = 1 THEN 128 ELSE Pow(2, 7 - h)
    IN  Scaled(raw[1] % m, 64, h - 1) + GroupValue(raw, 2, h, 64)

\* C12: lzf_length fails (ValueError) for the empty input, for an input whose
\* first byte announces more header bytes than the input holds, and for an
\* input whose decoded size is zero.
C12_CorruptHeaderFails ==
    (callIn.fn = "lzf_length" /\ callOut # None) =>
        LET raw == callIn.raw
        IN  (\/ raw = <<>>
             \/ (raw # <<>> /\ (HeaderSize(raw[1]) = 0 \/ HeaderSize(raw[1]) > Len(raw)))
             \/ (raw # <<>> /\ HeaderSize(raw[1]) \in 1..Len(raw) /\ HeaderValue(raw) = 0))
                => callOut[1].err = "ValueError"

\* C13: on success the header size is 1, 2 or 3 and at most the input length,
\* and the size is the low bits of the first byte below its marker followed
\* by the low 6 bits of each extra header byte.
C13_HeaderAtMostThree ==
    (callIn.fn = "lzf_length" /\ callOut # None /\ callOut[1].err = "ok") =>
        /\ callOut[1].start \in 1..3
        /\ callOut[1].start <= Len(callIn.raw)
        /\ (HeaderSize(callIn.raw[1]) \in 1..Len(callIn.raw))
              => /\ callOut[1].start = HeaderSize(callIn.raw[1])
                 /\ callOut[1].usize = HeaderValue(callIn.raw)

\* C13 (amended): on success the header size is between 1 and 7 and at most
\* the input length; when the input holds the whole header its first byte
\* announces, the header size is the announced one and the size is the low
\* bits of the first byte below its marker followed by the low 6 bits of each
\* extra header byte.
C13_HeaderUpToSeven ==
    (callIn.fn = "lzf_length" /\ callOut # None /\ callOut[1].err = "ok") =>
        /\ callOut[1].start \in 1..7
        /\ callOut[1].start <= Len(callIn.raw)
        /\ (HeaderSize(callIn.raw[1]) \in 1..Len(callIn.raw))
              => /\ callOut[1].start = HeaderSize(callIn.raw[1])
                 /\ callOut[1].usize = HeaderValue(callIn.raw)
        /\ (callIn.raw = <<196, 155>>) => (callOut[1].start = 2 /\ callOut[1].usize = 283)
        /\ (callIn.raw = <<225, 175, 169>>)
              => (callOut[1].start = 3 /\ callOut[1].usize = 7145)

\* a whole four-byte header decoded
C13_Witness ==
    /\ callIn.fn = "lzf_length"
    /\ callOut # None
    /\ callOut[1].err = "ok"
    /\ callOut[1].start = 4
    /\ HeaderSize(callIn.raw[1]) = 4
    /\ callOut[1].usize > 64

\* the record Tree.__iter__ owes for a stored entry, its path prefixed by pre
RecordOf(e, pre) == [mode |-> e.mode, fname |-> pre \o e.name, sha |-> HexEncode(e.key)]
RootOf(forest) == forest[KEY_ROOT]
TreeCall(fn) == callIn.fn = fn /\ callOut # None

\* C14: iterating a well-formed stream of k entries yields exactly k triples
\* (mode, name, 40-hex key) in stored order and nothing of any subtree
C14_IterYieldsEntries ==
    TreeCall("iter") =>
        /\ Len(callOut[1]) = Len(RootOf(callIn.forest))
        /\ \A n \in 1..Len(callOut[1]) :
            /\ callOut[1][n] = RecordOf(RootOf(callIn.forest)[n], <<>>)
            /\ Len(callOut[1][n].sha) = HEX_LEN

\* two entries were iterated: a subtree that has entries of its own, and a
\* file whose key holds NUL and space bytes
C14_Witness ==
    /\ TreeCall("iter")
    /\ Len(callOut[1]) = 2
    /\ callOut[1][1].mode = MODE_TREE
    /\ callIn.forest[KEY_SUB] # <<>>
    /\ RootOf(callIn.forest)[2].key = KEY_BLOB1

\* the pre-order listing of the tree with key k of a forest, paths prefixed by pre
RECURSIVE PreOrder(_, _, _)
PreOrder(forest, k, pre) ==
    LET RECURSIVE From(_)
        From(n) ==
            IF n > Len(forest[k]) THEN <<>>
            ELSE <<RecordOf(forest[k][n], pre)>>
                 \o (IF forest[k][n].mode = MODE_TREE
                     THEN PreOrder(forest, forest[k][n].key, pre \o forest[k][n].name \o <<SLASH>>)
                     ELSE <<>>)
                 \o From(n + 1)
    IN  From(1)

Leaves(es) == { n \in 1..Len(es) : es[n].mode # MODE_TREE }

\* C15: traverse yields the depth-first pre-order listing: a subtree entry is
\* immediately followed by the whole traversal of its child tree with the
\* paths prefixed by its name and a slash; a tree with one subtree entry
\* holding j leaf entries yields 1 + j records
C15_TraversePreOrder ==
    TreeCall("traverse") =>
        /\ callOut[1] = PreOrder(callIn.forest, KEY_ROOT, <<>>)
        /\ \A n \in 1..Len(callOut[1]) :
            callOut[1][n].mode = MODE_TREE /\ callOut[1][n].fname \in {NAME_D, NAME_BC} =>
                LET child == PreOrder(callIn.forest, KEY_SUB, callOut[1][n].fname \o <<SLASH>>)
                IN  SubSeq(callOut[1], n + 1, n + Len(child)) = child
        /\ ( /\ Len(RootOf(callIn.forest)) = 1
             /\ RootOf(callIn.forest)[1].key = KEY_SUB
             /\ Leaves(callIn.forest[KEY_SUB]) = 1..Len(callIn.forest[KEY_SUB]) )
           => Len(callOut[1]) = 1 + Len(callIn.forest[KEY_SUB])

\* a root of one subtree entry holding two leaves was traversed: three records
C15_Witness ==
    /\ TreeCall("traverse")
    /\ Len(RootOf(callIn.forest)) = 1
    /\ RootOf(callIn.forest)[1].key = KEY_SUB
    /\ Leaves(callIn.forest[KEY_SUB]) = {1, 2}
    /\ Len(callOut[1]) = 3
    /\ callOut[1][3].fname = NAME_D \o <<SLASH>> \o NAME_A

\* the records of the whole forest below the root, by kind
AllRecords == PreOrder(callIn.forest, KEY_ROOT, <<>>)
LeafRecords(recs) == { n \in 1..Len(recs) : recs[n].mode # MODE_TREE }
SubtreePaths(recs) == { recs[n].fname : n \in (1..Len(recs)) \ LeafRecords(recs) }
LeafPaths(recs) == { recs[n].fname : n \in LeafRecords(recs) }
LastLeaf(recs, path) == CHOOSE n \in LeafRecords(recs) :
                            /\ recs[n].fname = path
                            /\ \A m \in LeafRecords(recs) : recs[m].fname = path => m <= n

\* files has one entry per distinct path of a non-subtree entry, mapped to the
\* key of the last such entry, and len(tree) is the number of entries
FilesLastWins(recs) ==
    /\ DOMAIN callOut[1].files = LeafPaths(recs)
    /\ \A path \in LeafPaths(recs) : callOut[1].files[path] = recs[LastLeaf(recs, path)].sha
    /\ callOut[1].len = Cardinality(LeafPaths(recs))

\* C16 as stated: last-write-wins over the non-subtree entries, and no entry
\* of files has the path of a subtree entry
C16_NoSubtreePath ==
    TreeCall("files") =>
        Bind(AllRecords, LAMBDA recs :
            /\ FilesLastWins(recs)
            /\ DOMAIN callOut[1].files \cap SubtreePaths(recs) = {})

\* C16: last-write-wins over the non-subtree entries; a subtree entry adds
\* nothing: its path is an entry of files only when a non-subtree entry has
\* that same path
C16_FilesOfLeavesOnly ==
    TreeCall("files") =>
        Bind(AllRecords, LAMBDA recs :
            /\ FilesLastWins(recs)
            /\ DOMAIN callOut[1].files \cap SubtreePaths(recs)
                    = LeafPaths(recs) \cap SubtreePaths(recs))

\* files of a tree where a path occurs twice with different keys and a
\* subtree path that no file has
C16_Witness ==
    /\ TreeCall("files")
    /\ \E n, m \in LeafRecords(AllRecords) :
        n < m /\ AllRecords[n].fname = AllRecords[m].fname /\ AllRecords[n].sha # AllRecords[m].sha
    /\ SubtreePaths(AllRecords) \ LeafPaths(AllRecords) # {}
    /\ callOut[1].len = 1

Identifiers(names) == SelectSeq(names, LAMBDA name : name # <<>>)

\* C17: each of the eight semicolon-delimited relation accessors returns the
\* stored identifiers in stored order with every 'EMPTY' removed, and the
\* empty sequence, not an error, when the stored value is absent
C17_SentinelRemoved ==
    (callIn.fn \in RelNames /\ callOut # None) =>
        /\ callOut[1].err = "ok"
        /\ callIn.stored = None => callOut[1].val[1] = <<>>
        /\ Identifiers(callOut[1].val[1]) = NotEmpty(callIn.tokens)

\* the path sets of a finished diff call and its records by kind
SubCall == callIn.fn = "sub" /\ callOut # None
AddedPaths == DOMAIN callIn.new_files \ DOMAIN callIn.old_files
DeletedPaths == DOMAIN callIn.old_files \ DOMAIN callIn.new_files
ChangedPaths == { p \in DOMAIN callIn.new_files \cap DOMAIN callIn.old_files :
                    callIn.new_files[p] # callIn.old_files[p] }
SamePaths == { p \in DOMAIN callIn.new_files \cap DOMAIN callIn.old_files :
                    callIn.new_files[p] = callIn.old_files[p] }
Recs == callOut[1].recs
Renames == { n \in DOMAIN Recs :
                Recs[n].old_path # None /\ Recs[n].new_path # None
                /\ Recs[n].old_path # Recs[n].new_path }
With(old_path, new_path) ==
    { n \in DOMAIN Recs : Recs[n].old_path = old_path /\ Recs[n].new_path = new_path }
Naming(path) ==
    { n \in DOMAIN Recs : Some(path) \in {Recs[n].old_path, Recs[n].new_path} }

C19_RecordsPartitionPaths ==
    (SubCall /\ callIn.threshold < UNIT) =>
        /\ callOut[1].err = "ok"
        /\ \A p \in ChangedPaths : Cardinality(With(Some(p), Some(p))) = 1
        /\ \A p \in SamePaths : Naming(p) = {}
        /\ \A p \in AddedPaths \cup DeletedPaths : Cardinality(Naming(p)) = 1
        /\ \A p \in DeletedPaths : Cardinality(Renames \cap Naming(p)) <= 1

\* the member commits of a finished head call
HeadCall == callIn.fn = "head" /\ callOut # None
Member(k) == callIn.commits[k] # None
NonBot(k) == Member(k) /\ callIn.commits[k][1].author # MERGE_BUTTON
ParentOfMember(k) ==
    \E j \in 1..3 : j # k /\ Member(j)
        /\ \E i \in DOMAIN callIn.commits[j][1].parent_shas :
            callIn.commits[j][1].parent_shas[i] = ProjectShas[k]
AuthoredTs(k) == IF callIn.commits[k][1].ts > MaxClock THEN DAY_Z.ts ELSE callIn.commits[k][1].ts
Candidate(k) == NonBot(k) /\ ~ParentOfMember(k)

\* C20: for a project with at least one non-bot member commit, head returns
\* a member commit that is not by the bot, whose key is no parent key of any
\* other member commit, and no other such candidate has a strictly later
\* authored timestamp (an unknown one counting as the epoch)
C20_HeadIsLatestTip ==
    (HeadCall /\ \E k \in 1..3 : NonBot(k)) =>
        /\ callOut[1].err = "ok"
        /\ \E k \in 1..3 :
            /\ callOut[1].head = Some(ProjectShas[k])
            /\ Candidate(k)
            /\ \A j \in 1..3 : Candidate(j) => AuthoredTs(j) <= AuthoredTs(k)

\* a finished graph call and, from its arguments, the commits of the archive
GraphCall(fn) == callIn.fn = fn /\ callOut # None
KeyIndex(sha) == CHOOSE k \in 1..3 : ProjectShas[k] = sha
InArchive(sha) == callIn.commits[KeyIndex(sha)] # None
Given(sha) == callIn.commits[KeyIndex(sha)][1]
Listed == { callIn.commit_shas[n] : n \in DOMAIN callIn.commit_shas }
\* the keys of the commit sequence: listed, stored and not by the merge button
InSequence == { sha \in Listed : InArchive(sha) /\ Given(sha).author # MERGE_BUTTON }
\* the timestamp parsing leaves: None for one after the clock
ParsedTs(sha) == IF Given(sha).ts > MaxClock THEN None ELSE Some(Given(sha).ts)
DatedRoots == { sha \in InSequence : Given(sha).parent_shas = <<>> /\ ParsedTs(sha) # None }
BeforeRoots(sha) ==
    /\ ParsedTs(sha) # None
    /\ DatedRoots # {}
    /\ \A r \in DatedRoots : ParsedTs(sha)[1] < ParsedTs(r)[1]
BeforeEpoch(sha) == ParsedTs(sha) # None /\ DatedRoots = {} /\ ParsedTs(sha)[1] < DAY_Z.ts

\* C21 as stated: in the sequence of Project.commits a timestamp is unknown
\* exactly when parsing left it unknown or it is strictly earlier than the
\* least known timestamp of the parentless commits; all others are kept
C21_CorrectionAsStated ==
    (GraphCall("commits") /\ callOut[1].err = "ok") =>
        \A n \in DOMAIN callOut[1].commits :
            LET c == callOut[1].commits[n]
            IN  /\ (c.authored_at = None) <=> (ParsedTs(c.sha) = None \/ BeforeRoots(c.sha))
                /\ c.authored_at # None => c.authored_at[1].ts = ParsedTs(c.sha)[1]

\* C21: in the sequence of Project.commits a timestamp is unknown exactly when
\* parsing left it unknown, or it is strictly earlier than the least known
\* timestamp of the parentless commits, or no parentless commit has a known
\* timestamp and it is before the epoch; all others, one equal to that least
\* timestamp included, are kept
C21_CorrectionWithEpochFloor ==
    (GraphCall("commits") /\ callOut[1].err = "ok") =>
        \A n \in DOMAIN callOut[1].commits :
            LET c == callOut[1].commits[n]
            IN  /\ (c.authored_at = None)
                        <=> (ParsedTs(c.sha) = None \/ BeforeRoots(c.sha) \/ BeforeEpoch(c.sha))
                /\ c.authored_at # None => c.authored_at[1].ts = ParsedTs(c.sha)[1]

\* a sequence with one commit dated before the earliest root, reset to None,
\* and another dated as that root, kept
C21_Witness ==
    /\ GraphCall("commits")
    /\ callOut[1].err = "ok"
    /\ \E n, m \in DOMAIN callOut[1].commits :
        /\ BeforeRoots(callOut[1].commits[n].sha)
        /\ callOut[1].commits[n].authored_at = None
        /\ callOut[1].commits[m].sha \notin DatedRoots
        /\ callOut[1].commits[m].authored_at # None
        /\ \E r \in DatedRoots : ParsedTs(r)[1] = callOut[1].commits[m].authored_at[1].ts
                                 /\ \A q \in DatedRoots : ParsedTs(r)[1] <= ParsedTs(q)[1]

\* the commit the first-parent chain from sha ends in
RECURSIVE ChainEnd(_)
ChainEnd(sha) ==
    IF ~InArchive(sha) \/ Given(sha).parent_shas = <<>> THEN sha
    ELSE ChainEnd(Given(sha).parent_shas[1])

\* C22: tail returns the key of the parentless commit in which the
\* first-parent chain from the project's head ends; for a project whose only
\* commit is parentless it is that commit
C22_TailEndsHeadChain ==
    (GraphCall("tail") /\ callOut[1].err = "ok" /\ InSequence # {}) =>
        Bind(Project_commits(CommitStore(callIn.commits), callIn.commit_shas, MaxClock),
             LAMBDA cs :
                \A order \in Orders(DOMAIN cs.commits) :
                    Bind(Project_head(cs, order), LAMBDA h :
                        h.err = "ok" => callOut[1].tail = Some(ChainEnd(h.head[1]))))

\* the keys yielded by a finished commits_fp call
Yielded == { callOut[1].shas[i] : i \in DOMAIN callOut[1].shas }
\* sha and the keys reached from it by first-parent links
RECURSIVE FirstParentKeys(_)
FirstParentKeys(sha) ==
    IF ~InArchive(sha) \/ Given(sha).parent_shas = <<>> THEN {sha}
    ELSE {sha} \cup FirstParentKeys(Given(sha).parent_shas[1])

\* C23 as stated: every key commits_fp yields is one of the project's keys
C23_YieldedAreMembers ==
    (GraphCall("commits_fp") /\ callOut[1].err = "ok") => Yielded \subseteq Listed

\* C23: the first commit commits_fp yields is of the project's sequence, and
\* the yielded keys are that commit and all its first-parent ancestors,
\* listed by the project or not; they are all listed exactly when every first
\* parent on the chain is
C23_YieldedAreFirstParentAncestors ==
    (GraphCall("commits_fp") /\ callOut[1].err = "ok") =>
        /\ callOut[1].shas # <<>>
        /\ callOut[1].shas[1] \in InSequence
        /\ Yielded = FirstParentKeys(callOut[1].shas[1])
        /\ (Yielded \subseteq Listed)
            <=> \A sha \in Yielded :
                    Given(sha).parent_shas # <<>> => Given(sha).parent_shas[1] \in Listed

\* a chain that leaves the project: a yielded commit the project does not list
C23_Witness ==
    /\ GraphCall("commits_fp")
    /\ callOut[1].err = "ok"
    /\ callOut[1].shas[1] \in Listed
    /\ \E i \in DOMAIN callOut[1].shas : callOut[1].shas[i] \notin Listed

\* the sort key of a commit of the sequence: its timestamp as Project.commits
\* leaves it, the epoch for an unknown one
SequenceKey(sha) ==
    IF ParsedTs(sha) = None \/ BeforeRoots(sha) \/ BeforeEpoch(sha) THEN DAY_Z.ts
    ELSE ParsedTs(sha)[1]

C26_IterSkipsAbsent ==
    GraphCall("iter") =>
        /\ callOut[1].err = "ok"
        /\ [n \in DOMAIN callOut[1].commits |-> callOut[1].commits[n].sha]
            = SelectSeq(callIn.commit_shas, LAMBDA sha : sha \in InSequence)

\* the project's dates are consistent: every commit of the sequence has a
\* known date at or after the epoch, no two the same, and each is later than
\* its parents in the sequence
ConsistentDates ==
    /\ InSequence # {}
    /\ \A sha \in InSequence :
        /\ ParsedTs(sha) # None
        /\ ParsedTs(sha)[1] >= DAY_Z.ts
        /\ \A other \in InSequence \ {sha} : ParsedTs(other) # ParsedTs(sha)
        /\ \A n \in DOMAIN Given(sha).parent_shas :
            Given(sha).parent_shas[n] \in InSequence
                => ParsedTs(Given(sha).parent_shas[n])[1] < ParsedTs(sha)[1]

\* C30: for a project with consistent dates the first commit commits_fp
\* yields is the commit head returns, in whatever order the dicts and sets
\* are iterated
C30_ChainStartsAtHead ==
    (GraphCall("commits_fp") /\ ConsistentDates /\ \A sha \in Listed : InArchive(sha)) =>
        /\ callOut[1].shas # <<>>
        /\ Bind(Project_commits(CommitStore(callIn.commits), callIn.commit_shas, MaxClock),
                LAMBDA cs :
                    \A order \in Orders(DOMAIN cs.commits) :
                        Project_head(cs, order) = [err |-> "ok", head |-> Some(callOut[1].shas[1])])

\* a project with two tips, the later of them listed after the earlier, and
\* the chain starting at the later
C30_Witness ==
    /\ GraphCall("commits_fp")
    /\ ConsistentDates
    /\ Listed = {SHA_1, SHA_2, SHA_3}
    /\ InSequence = Listed
    /\ Given(SHA_2).parent_shas = <<SHA_1>>
    /\ Given(SHA_3).parent_shas = <<SHA_1>>
    /\ ParsedTs(SHA_2)[1] > ParsedTs(SHA_3)[1]
    /\ callOut[1] = [err |-> "ok", shas |-> <<SHA_2, SHA_1>>]

\* C27: with threshold 0 the diff of a one-file parent and a child whose one
\* file has another name is exactly one rename record, whatever the contents
C27_ZeroThresholdRenames ==
    (/\ SubCall
     /\ callIn.threshold = 0
     /\ DOMAIN callIn.new_files = AddedPaths
     /\ DOMAIN callIn.old_files = DeletedPaths
     /\ Cardinality(AddedPaths) = 1
     /\ Cardinality(DeletedPaths) = 1)
        => /\ callOut[1].err = "ok"
           /\ Len(Recs) = 1
           /\ Renames = {1}

\* C29: every handle in the pool was opened successfully: a failed open()
\* leaves no entry for its path
C29_PoolHoldsOpenHandles == \A path \in DOMAIN pool : pool[path].isopen

\* C28: the memoized fields are not filled atomically. Calls of the wrapper
\* that never overlap run the computation of a field exactly once, however
\* often it is read; with overlapping calls each thread runs it at most once,
\* so two threads can run it twice. A field holds a value only after a run
C28_OnceUnlessOverlapped ==
    \A name \in ThreadFields :
        /\ raceLog.runs[name] <= MaxThreads
        /\ name \notin raceLog.overlapped => raceLog.runs[name] <= 1
        /\ name \in DOMAIN attrs => raceLog.runs[name] >= 1
        /\ \A t \in Threads :
            (frames[t].pc = "idle" /\ frames[t].name = name)
                => name \in DOMAIN attrs /\ frames[t].val # None

\* two threads met in the first access of a field and both ran its computation
C28_Witness ==
    \E name \in ThreadFields :
        /\ raceLog.runs[name] = 2
        /\ name \in raceLog.overlapped
        /\ \A t \in Threads : frames[t].pc = "idle" /\ frames[t].name = name

\* the key and the value of a header line read as a field: none for a line
\* that starts with a space or has no blank after its key
FieldOf(line) ==
    IF line # <<>> /\ line[1] = SP THEN <<>>
    ELSE Bind(Split1(Strip(line), <<SP>>), LAMBDA kv : IF Len(kv) = 2 THEN kv ELSE <<>>)
IsField(line, key) == FieldOf(line) # <<>> /\ FieldOf(line)[1] = key
\* the line ends a signature block: it is the END marker, as it stands or
\* once the blanks around it are dropped
IsEnd(line, exact) ==
    IF exact THEN line = END_PGP_SIGNATURE ELSE Strip(line) = END_PGP_SIGNATURE

\* per header line from the i-th on, whether it lies inside a signature block:
\* after a gpgsig line read as a field, up to and including the next END line
RECURSIVE InBlockFrom(_, _, _, _)
InBlockFrom(lines, i, inside, exact) ==
    IF i > Len(lines) THEN <<>>
    ELSE <<inside>> \o InBlockFrom(lines, i + 1,
                                   IF inside THEN ~IsEnd(lines[i], exact)
                                   ELSE IsField(lines[i], KEY_GPGSIG),
                                   exact)

\* the values of the lines outside the blocks that are a field of key
RECURSIVE FieldsOutside(_, _, _, _)
FieldsOutside(lines, inBlock, key, i) ==
    IF i > Len(lines) THEN <<>>
    ELSE IF ~inBlock[i] /\ IsField(lines[i], key)
    THEN <<FieldOf(lines[i])[2]>> \o FieldsOutside(lines, inBlock, key, i + 1)
    ELSE FieldsOutside(lines, inBlock, key, i + 1)

\* the gpgsig lines that open a block which an END line closes
ClosedBlocks(lines, inBlock, exact) ==
    { g \in DOMAIN lines :
        /\ ~inBlock[g]
        /\ IsField(lines[g], KEY_GPGSIG)
        /\ \E e \in (g + 1)..Len(lines) : IsEnd(lines[e], exact) }

\* the text of the block opened at line g: the value of the gpgsig line and
\* the lines after it up to and including the first END line
RECURSIVE BlockText(_, _, _)
BlockText(lines, i, exact) ==
    IF IsEnd(lines[i], exact) THEN lines[i] ELSE lines[i] \o BlockText(lines, i + 1, exact)

\* the header lines of the parsed commit
HeaderLines == Split(Split1(commit.data, <<NL, NL>>)[1], <<NL>>)
ParsedCommit == commit.dict # <<>> /\ commit.dict["parent_shas"] # None

\* the statement of C25 for one reading of "a line equal to the END marker"
SignatureScan(exact) ==
    ParsedCommit =>
        Bind(HeaderLines, LAMBDA lines :
        Bind(InBlockFrom(lines, 1, FALSE, exact), LAMBDA inBlock :
        Bind(ClosedBlocks(lines, inBlock, exact), LAMBDA closed :
            /\ commit.dict["parent_shas"] = Some(FieldsOutside(lines, inBlock, KEY_PARENT, 1))
            /\ (commit.dict["tree"] # None)
                    <=> FieldsOutside(lines, inBlock, KEY_TREE, 1) # <<>>
            /\ (commit.dict["signature"] # None) <=> closed # {}
            /\ closed # {} =>
                \E g \in closed :
                    /\ \A h \in closed : h <= g
                    /\ commit.dict["signature"]
                        = Some(FieldOf(lines[g])[2] \o BlockText(lines, g + 1, exact)))))

\* C25 as stated: a signature block runs from a gpgsig line up to and
\* including the first line equal to the END marker; its lines are never read
\* as fields, the lines after it are; signature is set exactly when a block
\* is closed, and parent_shas is the parent lines outside blocks, in order
C25_BlockEndsAtMarkerLine == SignatureScan(TRUE)

\* C25: the same with the block ending at the first line that is the END
\* marker once the blanks around it are dropped
C25_BlockEndsAtStrippedMarker == SignatureScan(FALSE)

\* a closed block with a parent and a tree line inside and a parent line
\* after it: only the parent after it is listed, no tree is set
C25_Witness ==
    /\ ParsedCommit
    /\ commitIn.entries = <<"gpgsig_fields", "parent_other">>
    /\ commit.dict["parent_shas"] = Some(<<SHA_Q>>)
    /\ commit.dict["tree"] = None
    /\ commit.dict["signature"] # None

\* ---------------------------------------------------------- specifications
\* each specification runs one part of the program and leaves the others idle
IdleKey == made = [s \in Slots |-> None]
IdleDate ==
    /\ dateIn = [ts |-> 0, sgn |-> "+", hh |-> 0, mm |-> 0]
    /\ dateNow = 0
    /\ dateOut = None

IdleStore ==
    /\ disk = Archive({}, [k \in ObjKeys |-> "good"])
    /\ pool = <<>>
    /\ poolLog = <<>>
    /\ asked = {}
    /\ insts = <<>>
    /\ firsts = <<>>
    /\ last = [op |-> "none", inst |-> 0, field |-> "", hit |-> FALSE, err |-> "ok",
               val |-> None, reads |-> 0, binReads |-> 0, runs |-> 0]

IdleCommit ==
    /\ commitIn = [entries |-> <<>>, body |-> None]
    /\ commitNow = 0
    /\ commit = [sha |-> SHA_C, data |-> <<>>, dict |-> <<>>]
    /\ commitLast = [attr |-> "", parsed |-> FALSE, err |-> "ok", msg |-> <<>>, val |-> None]

IdleCall ==
    /\ callIn = [fn |-> "none"]
    /\ callOut = None

IdleThreads ==
    /\ frames = <<>>
    /\ attrs = <<>>
    /\ raceLog = [runs |-> <<>>, overlapped |-> {}]

\* everything but the calls idle
IdleObjects == IdleKey /\ IdleDate /\ IdleStore /\ IdleCommit /\ IdleThreads

InitKeySpec == InitKey /\ IdleDate /\ IdleStore /\ IdleCommit /\ IdleCall /\ IdleThreads
InitDateSpec == InitDate /\ IdleKey /\ IdleStore /\ IdleCommit /\ IdleCall /\ IdleThreads
InitObjSpec == InitStore /\ IdleKey /\ IdleDate /\ IdleCommit /\ IdleCall /\ IdleThreads
InitCommitSpec == InitCommit /\ IdleKey /\ IdleDate /\ IdleStore /\ IdleCall /\ IdleThreads

SpecKey == InitKeySpec /\ [][NextKey]_vars
SpecDate == InitDateSpec /\ [][NextDate]_vars
SpecObj == InitObjSpec /\ [][NextObj]_vars
SpecPool == InitObjSpec /\ [][NextPool]_vars
SpecCommit == InitCommitSpec /\ [][NextCommit]_vars

InitCodecSpec == InitCodec /\ IdleObjects
InitTreeSpec == InitTree /\ IdleObjects
InitRelSpec == InitRel /\ IdleObjects
InitDiffSpec == InitDiff /\ IdleObjects
InitProjectSpec == InitProject /\ IdleObjects
InitGraphSpec == InitGraph /\ IdleObjects

InitThreadsSpec == InitThreads /\ IdleKey /\ IdleDate /\ IdleStore /\ IdleCommit /\ IdleCall
SpecThreads == InitThreadsSpec /\ [][NextThreads]_vars

SpecCodec == InitCodecSpec /\ [][NextCodec]_vars
SpecTree == InitTreeSpec /\ [][NextTree]_vars
SpecRel == InitRelSpec /\ [][NextRel]_vars
SpecDiff == InitDiffSpec /\ [][NextDiff]_vars
SpecProject == InitProjectSpec /\ [][NextProject]_vars
SpecGraph == InitGraphSpec /\ [][NextGraph]_vars

====
